---------------------------- MODULE Spec2Model ----------------------------
(***************************************************************************)
(* Disproportionality statistics of faers-signal-detection: the canonical *)
(* engine src/src/stats.py (conditional Haldane correction, PRR, ROR,     *)
(* Pearson chi-square, base flag), the cohort dashboard src/app.py        *)
(* (fetch_top_signals) and the single-drug explorer src/app/app.py        *)
(* (get_drug_rows, guardrail flag).                                        *)
(*                                                                         *)
(* Arithmetic.  The Python code computes in IEEE doubles; the model       *)
(* computes the same expressions, operation by operation, in exact        *)
(* rationals (arbitrary precision, because TLC integers are 32 bit and    *)
(* the guardrail tables hold 10^4 cases).  exp, log and sqrt are kept     *)
(* symbolic: a Wald bound is the value exp(ln(x) + sg*1.96*sqrt(r)) and   *)
(* is compared by the monotonicity of exp/ln/sqrt.                         *)
(***************************************************************************)
EXTENDS Integers, Sequences, FiniteSets, TLC

(***************************************************************************)
(* Natural numbers of arbitrary size: little-endian digit sequences in    *)
(* base Base, without leading zero digits; zero is <<0>>.                  *)
(***************************************************************************)
Base == 100 * 100

Big == Seq(Nat)

BigZero == <<0>>

BigOne == <<1>>

BigFromNat[n \in Nat] ==
    IF n < Base THEN <<n>> ELSE <<n % Base>> \o BigFromNat[n \div Base]

BigNorm[x \in Big] ==
    IF Len(x) > 1 /\ x[Len(x)] = 0 THEN BigNorm[SubSeq(x, 1, Len(x) - 1)] ELSE x

\* the digits of x + y + carry from position i on
BigAddC[x \in Big, y \in Big, i \in Nat, carry \in Nat] ==
    IF i > Len(x) /\ i > Len(y)
    THEN IF carry = 0 THEN <<>> ELSE <<carry>>
    ELSE LET s == (IF i > Len(x) THEN 0 ELSE x[i]) + (IF i > Len(y) THEN 0 ELSE y[i]) + carry
         IN <<s % Base>> \o BigAddC[x, y, i + 1, s \div Base]

BigAdd[x \in Big, y \in Big] ==
    IF Len(x) = 1 /\ Len(y) = 1 /\ x[1] + y[1] < Base
    THEN <<x[1] + y[1]>>
    ELSE BigAddC[x, y, 1, 0]

\* the digits of x - y - borrow from position i on, for x >= y
BigSubB[x \in Big, y \in Big, i \in Nat, borrow \in Nat] ==
    IF i > Len(x) THEN <<>>
    ELSE LET s == x[i] - (IF i > Len(y) THEN 0 ELSE y[i]) - borrow
         IN IF s >= 0 THEN <<s>> \o BigSubB[x, y, i + 1, 0]
                      ELSE <<s + Base>> \o BigSubB[x, y, i + 1, 1]

\* x - y for x >= y
BigSub[x \in Big, y \in Big] ==
    IF Len(x) = 1 /\ Len(y) = 1 THEN <<x[1] - y[1]>> ELSE BigNorm[BigSubB[x, y, 1, 0]]

\* the digits of x * dgt + carry from position i on
BigMulDigit[x \in Big, dgt \in Nat, i \in Nat, carry \in Nat] ==
    IF i > Len(x)
    THEN IF carry = 0 THEN <<>> ELSE <<carry>>
    ELSE LET s == x[i] * dgt + carry
         IN <<s % Base>> \o BigMulDigit[x, dgt, i + 1, s \div Base]

\* x times the digits of y from position j on
BigMulR[x \in Big, y \in Big, j \in Nat] ==
    IF j > Len(y) THEN <<0>>
    ELSE BigAddC[BigMulDigit[x, y[j], 1, 0], <<0>> \o BigMulR[x, y, j + 1], 1, 0]

BigMul[x \in Big, y \in Big] ==
    IF x = BigZero \/ y = BigZero THEN BigZero
    ELSE IF Len(x) = 1 /\ Len(y) = 1 /\ x[1] * y[1] < Base THEN <<x[1] * y[1]>>
    ELSE BigNorm[BigMulR[x, y, 1]]

BigCmpFrom[x \in Big, y \in Big, i \in Nat] ==
    IF i = 0 THEN 0
    ELSE IF x[i] < y[i] THEN -1
    ELSE IF x[i] > y[i] THEN 1
    ELSE BigCmpFrom[x, y, i - 1]

\* -1, 0, 1 as x < y, x = y, x > y
BigCmp[x \in Big, y \in Big] ==
    IF Len(x) < Len(y) THEN -1
    ELSE IF Len(x) > Len(y) THEN 1
    ELSE BigCmpFrom[x, y, Len(x)]

(***************************************************************************)
(* Rationals s * n / d: s the sign (-1, 0, 1), n and d naturals, d > 0,   *)
(* s = 0 exactly when n is zero.  Not reduced: compare with QCmp.          *)
(***************************************************************************)
Rat == [s : {-1, 0, 1}, n : Big, d : Big]

Sgn(i) == IF i < 0 THEN -1 ELSE IF i > 0 THEN 1 ELSE 0

Abs(i) == IF i < 0 THEN -i ELSE i

QZero == [s |-> 0, n |-> BigZero, d |-> BigOne]

QMake[s \in {-1, 0, 1}, n \in Big, d \in Big] ==
    IF n = BigZero \/ s = 0 THEN QZero ELSE [s |-> s, n |-> n, d |-> d]

QInt[i \in Int] == QMake[Sgn(i), BigFromNat[Abs(i)], BigOne]

\* i / j for integers, j > 0
QFrac[i \in Int, j \in Nat] == QMake[Sgn(i), BigFromNat[Abs(i)], BigFromNat[j]]

QNeg[x \in Rat] == [s |-> -x.s, n |-> x.n, d |-> x.d]

\* x + y for x and y of one denominator
QAddSame[x \in Rat, y \in Rat] ==
    IF x.s = y.s THEN QMake[x.s, BigAdd[x.n, y.n], x.d]
    ELSE IF BigCmp[x.n, y.n] = 0 THEN QZero
    ELSE IF BigCmp[x.n, y.n] > 0 THEN QMake[x.s, BigSub[x.n, y.n], x.d]
    ELSE QMake[y.s, BigSub[y.n, x.n], x.d]

QAdd[x \in Rat, y \in Rat] ==
    IF x.s = 0 THEN y
    ELSE IF y.s = 0 THEN x
    ELSE IF x.d = y.d THEN QAddSame[x, y]
    ELSE QAddSame[[s |-> x.s, n |-> BigMul[x.n, y.d], d |-> BigMul[x.d, y.d]],
                  [s |-> y.s, n |-> BigMul[y.n, x.d], d |-> BigMul[x.d, y.d]]]

QSub[x \in Rat, y \in Rat] == QAdd[x, QNeg[y]]

QMul[x \in Rat, y \in Rat] == QMake[x.s * y.s, BigMul[x.n, y.n], BigMul[x.d, y.d]]

\* x / y for y # 0
QDiv[x \in Rat, y \in Rat] == QMake[x.s * y.s, BigMul[x.n, y.d], BigMul[x.d, y.n]]

\* the sign of x - y
QCmp[x \in Rat, y \in Rat] ==
    IF x.s # y.s THEN (IF x.s < y.s THEN -1 ELSE 1)
    ELSE IF x.s = 0 THEN 0
    ELSE x.s * BigCmp[BigMul[x.n, y.d], BigMul[y.n, x.d]]

QIsZero(x) == x.s = 0

QEq(x, y) == QCmp[x, y] = 0

QLt(x, y) == QCmp[x, y] < 0

QLe(x, y) == QCmp[x, y] <= 0

QGe(x, y) == QCmp[x, y] >= 0

QGt(x, y) == QCmp[x, y] > 0

(***************************************************************************)
(* Python float values.  Fin(q) is the finite value q, PosInf is          *)
(* float("inf"), and Wald(x, r, sg) is math.exp(math.log(x) + sg * 1.96 * *)
(* math.sqrt(r)) for x > 0 and r >= 0, kept symbolic (sg is -1 or 1).     *)
(***************************************************************************)
Fin(q) == [k |-> "fin", q |-> q]

PosInf == [k |-> "inf"]

Wald(x, r, sg) == [k |-> "wald", x |-> x, r |-> r, sg |-> sg]

IsFinite(f) == f.k # "inf"

\* f >= q for a finite or infinite float f and a rational q
FGe(f, q) == IF f.k = "inf" THEN TRUE ELSE QGe(f.q, q)

\* exp(ln(x) + sg*1.96*sqrt(r)) <= x  iff  sg*sqrt(r) <= 0 (exp is increasing)
WaldLeEst(w) == w.sg < 0 \/ QIsZero(w.r)

\* x <= exp(ln(x) + sg*1.96*sqrt(r))  iff  sg*sqrt(r) >= 0
EstLeWald(w) == w.sg > 0 \/ QIsZero(w.r)

\* exp of a real number is positive; the bound is a real number when the
\* logarithm and the square root are defined
WaldPositive(w) == w.k = "wald" /\ w.x.s > 0 /\ w.r.s >= 0

(***************************************************************************)
(* The outcome of a Python call: a returned value or a raised exception.  *)
(***************************************************************************)
Return(v) == [exc |-> "none", val |-> v]

Raise(e) == [exc |-> e]

Half == QFrac[1, 2]

QOne == QInt[1]

(* src/src/stats.py:12-16.  min(a, b, c, d) == 0 on the raw integers; the *)
(* result is the four corrected cells as floats.                          *)
Min4(a, b, c, d) ==
    LET m1 == IF a < b THEN a ELSE b
        m2 == IF c < d THEN c ELSE d
    IN IF m1 < m2 THEN m1 ELSE m2

\* a partial correction: 0.5 is added to the zero cells only
apply_haldane_zero_cells_only(a, b, c, d) ==
    <<IF a = 0 THEN Half ELSE QInt[a], IF b = 0 THEN Half ELSE QInt[b],
      IF c = 0 THEN Half ELSE QInt[c], IF d = 0 THEN Half ELSE QInt[d]>>

\* no correction at all
apply_haldane_never(a, b, c, d) == <<QInt[a], QInt[b], QInt[c], QInt[d]>>

\* 0.5 added to every table, with or without a zero cell
apply_haldane_always(a, b, c, d) ==
    <<QAdd[QInt[a], Half], QAdd[QInt[b], Half], QAdd[QInt[c], Half], QAdd[QInt[d], Half]>>

\* the correction made only when a cell that is a divisor of the PRR, a or
\* c, is zero
apply_haldane_if_zero_divisor(a, b, c, d) ==
    IF a = 0 \/ c = 0
    THEN <<QAdd[QInt[a], Half], QAdd[QInt[b], Half], QAdd[QInt[c], Half], QAdd[QInt[d], Half]>>
    ELSE <<QInt[a], QInt[b], QInt[c], QInt[d]>>

apply_haldane_if_zero(a, b, c, d) ==
    IF Min4(a, b, c, d) = 0
    THEN <<QAdd[QInt[a], Half], QAdd[QInt[b], Half], QAdd[QInt[c], Half], QAdd[QInt[d], Half]>>
    ELSE <<QInt[a], QInt[b], QInt[c], QInt[d]>>

(* src/src/stats.py:22-29, on the corrected cells h.  A float division by *)
(* zero raises ZeroDivisionError, math.sqrt of a negative value and       *)
(* math.log of a non-positive value raise ValueError.                     *)
PrrWald[h \in Seq(Rat)] ==
    IF QIsZero(QAdd[h[1], h[2]]) \/ QIsZero(QAdd[h[3], h[4]]) THEN Raise("ZeroDivisionError")
    ELSE LET p1 == QDiv[h[1], QAdd[h[1], h[2]]]
             p0 == QDiv[h[3], QAdd[h[3], h[4]]]
         IN IF QIsZero(p0) THEN Return(<<PosInf, PosInf, PosInf>>)
            ELSE IF QIsZero(h[1]) THEN Raise("ZeroDivisionError")
            ELSE LET prr == QDiv[p1, p0]
                     rad == QSub[QAdd[QSub[QDiv[QOne, h[1]], QDiv[QOne, QAdd[h[1], h[2]]]],
                                      QDiv[QOne, h[3]]],
                                 QDiv[QOne, QAdd[h[3], h[4]]]]
                 IN IF rad.s < 0 \/ prr.s <= 0 THEN Raise("ValueError")
                    ELSE Return(<<Fin(prr), Wald(prr, rad, -1), Wald(prr, rad, 1)>>)

\* the comparator proportion taken as the odds c/d
prr_ci_comparator_odds(a, b, c, d) ==
    LET h == apply_haldane_if_zero(a, b, c, d)
        r == PrrWald[h]
        v == QDiv[QDiv[h[1], QAdd[h[1], h[2]]], QDiv[h[3], h[4]]]
    IN IF r.exc = "none" /\ r.val[1].k = "fin"
       THEN Return(<<Fin(v), Wald(v, r.val[2].r, -1), Wald(v, r.val[3].r, 1)>>)
       ELSE r

\* the two bounds returned in the other order
prr_ci_bounds_swapped(a, b, c, d) ==
    LET r == PrrWald[apply_haldane_if_zero(a, b, c, d)]
    IN IF r.exc = "none" THEN Return(<<r.val[1], r.val[3], r.val[2]>>) ELSE r

\* the odds ratio returned as the point estimate
prr_ci_odds_ratio(a, b, c, d) ==
    LET h == apply_haldane_if_zero(a, b, c, d)
        r == PrrWald[h]
        v == QDiv[QDiv[h[1], h[2]], QDiv[h[3], h[4]]]
    IN IF r.exc = "none" /\ r.val[1].k = "fin"
       THEN Return(<<Fin(v), Wald(v, r.val[2].r, -1), Wald(v, r.val[3].r, 1)>>)
       ELSE r

(* src/src/stats.py:19-29 *)
prr_ci(a, b, c, d) == PrrWald[apply_haldane_if_zero(a, b, c, d)]

(* src/src/stats.py:35-40, on the corrected cells h *)
RorWald[h \in Seq(Rat)] ==
    IF QIsZero(h[2]) \/ QIsZero(h[4]) THEN Return(<<PosInf, PosInf, PosInf>>)
    ELSE IF QIsZero(h[3]) \/ QIsZero(h[1]) THEN Raise("ZeroDivisionError")
    ELSE LET ror == QDiv[QDiv[h[1], h[2]], QDiv[h[3], h[4]]]
             rad == QAdd[QAdd[QAdd[QDiv[QOne, h[1]], QDiv[QOne, h[2]]],
                              QDiv[QOne, h[3]]],
                         QDiv[QOne, h[4]]]
         IN IF rad.s < 0 \/ ror.s <= 0 THEN Raise("ValueError")
            ELSE Return(<<Fin(ror), Wald(ror, rad, -1), Wald(ror, rad, 1)>>)

\* the quotient taken the other way round: (a'/b') * (c'/d')
ror_ci_product(a, b, c, d) ==
    LET h == apply_haldane_if_zero(a, b, c, d)
        r == RorWald[h]
        v == QMul[QDiv[h[1], h[2]], QDiv[h[3], h[4]]]
    IN IF r.exc = "none" /\ r.val[1].k = "fin"
       THEN Return(<<Fin(v), Wald(v, r.val[2].r, -1), Wald(v, r.val[3].r, 1)>>)
       ELSE r

\* the odds of the exposed row over the risk of the comparator row
ror_ci_odds_over_risk(a, b, c, d) ==
    LET h == apply_haldane_if_zero(a, b, c, d)
        r == RorWald[h]
        v == QDiv[QDiv[h[1], h[2]], QDiv[h[3], QAdd[h[3], h[4]]]]
    IN IF r.exc = "none" /\ r.val[1].k = "fin"
       THEN Return(<<Fin(v), Wald(v, r.val[2].r, -1), Wald(v, r.val[3].r, 1)>>)
       ELSE r

(* src/src/stats.py:32-40 *)
ror_ci(a, b, c, d) == RorWald[apply_haldane_if_zero(a, b, c, d)]

(* src/src/stats.py:46-51, on the corrected cells h *)
Chi2Cells[h \in Seq(Rat)] ==
    LET n == QAdd[QAdd[QAdd[h[1], h[2]], h[3]], h[4]]
    IN IF QIsZero(n) THEN Fin(QZero)
       ELSE LET x   == QSub[QMul[h[1], h[4]], QMul[h[2], h[3]]]
                num == QMul[QMul[x, x], n]
                den == QMul[QMul[QMul[QAdd[h[1], h[2]], QAdd[h[3], h[4]]],
                                 QAdd[h[1], h[3]]],
                            QAdd[h[2], h[4]]]
            IN IF QIsZero(den) THEN Fin(QZero) ELSE Fin(QDiv[num, den])

(* src/src/stats.py:46-51: the return statement chi2_pearson leaves by, on *)
(* the corrected cells h                                                   *)
Chi2Branch[h \in Seq(Rat)] ==
    IF QIsZero(QAdd[QAdd[QAdd[h[1], h[2]], h[3]], h[4]]) THEN "n == 0"
    ELSE IF QIsZero(QMul[QMul[QMul[QAdd[h[1], h[2]], QAdd[h[3], h[4]]], QAdd[h[1], h[3]]],
                         QAdd[h[2], h[4]]])
    THEN "den == 0"
    ELSE "num / den"

\* the statistic with Yates' continuity correction: (|a'd' - b'c'| - n/2)^2 n / den
chi2_pearson_yates(a, b, c, d) ==
    LET h   == apply_haldane_if_zero(a, b, c, d)
        n   == QAdd[QAdd[QAdd[h[1], h[2]], h[3]], h[4]]
        x   == QSub[QMul[h[1], h[4]], QMul[h[2], h[3]]]
        y   == QSub[IF x.s < 0 THEN QNeg[x] ELSE x, QMul[n, Half]]
        den == QMul[QMul[QMul[QAdd[h[1], h[2]], QAdd[h[3], h[4]]], QAdd[h[1], h[3]]],
                    QAdd[h[2], h[4]]]
    IN IF QIsZero(n) \/ QIsZero(den) THEN Fin(QZero)
       ELSE Fin(QDiv[QMul[QMul[y, y], n], den])

\* the degenerate-table guard taken on the raw marginals
chi2_pearson_raw_guard(a, b, c, d) ==
    IF (a + b) * (c + d) * (a + c) * (b + d) = 0 THEN Fin(QZero)
    ELSE Chi2Cells[apply_haldane_if_zero(a, b, c, d)]

(* src/src/stats.py:43-51 *)
chi2_pearson(a, b, c, d) == Chi2Cells[apply_haldane_if_zero(a, b, c, d)]

(***************************************************************************)
(* DataFrames: the column names and the rows in order.  An input row is   *)
(* one 2x2 table with its label, [pt, a, b, c, d]; pt stands for the      *)
(* (group, reaction) key, which is unique in a frame.                      *)
(***************************************************************************)
Frame(cols, rows) == [cols |-> cols, rows |-> rows]

InputCols == {"pt", "a", "b", "c", "d"}

Rows(f) == f.rows

NRows(f) == Len(f.rows)

\* out[name] = values: one new value per row (the column is computed when it
\* is assigned, hence the concatenation that makes the rows a tuple of values)
WithColumn(f, name, values) ==
    Frame(f.cols \cup {name},
          [i \in 1..Len(f.rows) |-> (name :> values[i]) @@ f.rows[i]] \o <<>>)

\* out.apply(fn, axis=1): the outcomes row by row
FirstRaise(outs) ==
    LET bad == {i \in 1..Len(outs) : outs[i].exc # "none"}
    IN IF bad = {} THEN "none"
       ELSE outs[CHOOSE i \in bad : \A j \in bad : i <= j].exc

(***************************************************************************)
(* stats.add_stats (src/src/stats.py:54-80), one operator per statement.  *)
(***************************************************************************)
StatsCols == {"N", "PRR", "PRR_LCL", "PRR_UCL", "ROR", "ROR_LCL", "ROR_UCL",
              "chi2", "flagged", "unstable_den", "sparse_bg"}

\* the empty frame returned as it came, without the added columns
StatsEmptyAsGiven(f) == Frame(f.cols, <<>>)

\* line 60-63: the empty frame gets the eleven columns, all empty
StatsEmpty(f) == Frame(f.cols \cup StatsCols, <<>>)

\* N taken over the whole column: out["a"].sum()
StatsNColumnSum(f) ==
    LET RECURSIVE SumA(_)
        SumA(i) == IF i = 0 THEN 0 ELSE f.rows[i].a + SumA(i - 1)
    IN WithColumn(f, "N", [i \in 1..NRows(f) |-> SumA(NRows(f))])

\* line 65: out["N"] = out["a"].astype(int)
StatsN(f) == WithColumn(f, "N", [i \in 1..NRows(f) |-> f.rows[i].a])

\* line 67: the prr_ci outcomes of the rows
StatsPrrApply(f) ==
    [i \in 1..NRows(f) |-> prr_ci(f.rows[i].a, f.rows[i].b, f.rows[i].c, f.rows[i].d)]

\* the corrected counts of a corrected row written back over its cells
\* (as integers, rounded up)
StatsPrrWritesCells(f) ==
    LET v == StatsPrrApply(f)
        z == [i \in 1..NRows(f) |->
                 IF Min4(f.rows[i].a, f.rows[i].b, f.rows[i].c, f.rows[i].d) = 0 THEN 1 ELSE 0]
    IN WithColumn(WithColumn(WithColumn(WithColumn(WithColumn(WithColumn(WithColumn(f,
           "PRR", [i \in 1..NRows(f) |-> v[i].val[1]]),
           "PRR_LCL", [i \in 1..NRows(f) |-> v[i].val[2]]),
           "PRR_UCL", [i \in 1..NRows(f) |-> v[i].val[3]]),
           "a", [i \in 1..NRows(f) |-> f.rows[i].a + z[i]]),
           "b", [i \in 1..NRows(f) |-> f.rows[i].b + z[i]]),
           "c", [i \in 1..NRows(f) |-> f.rows[i].c + z[i]]),
           "d", [i \in 1..NRows(f) |-> f.rows[i].d + z[i]])

\* line 68: out[["PRR", "PRR_LCL", "PRR_UCL"]] = prr_vals
StatsPrr(f) ==
    LET v == StatsPrrApply(f)
    IN WithColumn(WithColumn(WithColumn(f,
           "PRR", [i \in 1..NRows(f) |-> v[i].val[1]]),
           "PRR_LCL", [i \in 1..NRows(f) |-> v[i].val[2]]),
           "PRR_UCL", [i \in 1..NRows(f) |-> v[i].val[3]])

\* line 70
StatsRorApply(f) ==
    [i \in 1..NRows(f) |-> ror_ci(f.rows[i].a, f.rows[i].b, f.rows[i].c, f.rows[i].d)]

\* line 71
StatsRor(f) ==
    LET v == StatsRorApply(f)
    IN WithColumn(WithColumn(WithColumn(f,
           "ROR", [i \in 1..NRows(f) |-> v[i].val[1]]),
           "ROR_LCL", [i \in 1..NRows(f) |-> v[i].val[2]]),
           "ROR_UCL", [i \in 1..NRows(f) |-> v[i].val[3]])

\* line 73
StatsChi2(f) ==
    WithColumn(f, "chi2",
        [i \in 1..NRows(f) |-> chi2_pearson(f.rows[i].a, f.rows[i].b, f.rows[i].c, f.rows[i].d)])

\* the diagnostics taken on the corrected cells
StatsStabilityCorrected(f) ==
    WithColumn(WithColumn(f,
        "unstable_den", [i \in 1..NRows(f) |->
            LET h == apply_haldane_if_zero(f.rows[i].a, f.rows[i].b, f.rows[i].c, f.rows[i].d)
            IN QLt(h[3], QInt[3]) \/ QLt(h[4], QInt[3])]),
        "sparse_bg", [i \in 1..NRows(f) |->
            LET h == apply_haldane_if_zero(f.rows[i].a, f.rows[i].b, f.rows[i].c, f.rows[i].d)
            IN QLt(QAdd[h[3], h[4]], QInt[50])])

\* lines 76-77
StatsStability(f) ==
    WithColumn(WithColumn(f,
        "unstable_den", [i \in 1..NRows(f) |-> f.rows[i].c < 3 \/ f.rows[i].d < 3]),
        "sparse_bg", [i \in 1..NRows(f) |-> f.rows[i].c + f.rows[i].d < 50])

\* the flag without the case-count condition
StatsFlaggedWithoutN(f, prr_min, chi2_min, n_min) ==
    WithColumn(f, "flagged",
        [i \in 1..NRows(f) |-> /\ FGe(f.rows[i].PRR, QInt[prr_min])
                               /\ FGe(f.rows[i].chi2, QInt[chi2_min])])

\* the case count compared the other way round: N <= n_min
StatsFlaggedAtMostN(f, prr_min, chi2_min, n_min) ==
    WithColumn(f, "flagged",
        [i \in 1..NRows(f) |-> /\ FGe(f.rows[i].PRR, QInt[prr_min])
                               /\ FGe(f.rows[i].chi2, QInt[chi2_min])
                               /\ f.rows[i].N <= n_min])

\* line 79
StatsFlagged(f, prr_min, chi2_min, n_min) ==
    WithColumn(f, "flagged",
        [i \in 1..NRows(f) |-> /\ FGe(f.rows[i].PRR, QInt[prr_min])
                               /\ FGe(f.rows[i].chi2, QInt[chi2_min])
                               /\ f.rows[i].N >= n_min])

(***************************************************************************)
(* The cohort dashboard, src/app.py.  Its statistics add eps = 0.5 to the *)
(* four cells of every table (lines 73-93).  The cells of a row are       *)
(* Python numbers: a division by zero raises ZeroDivisionError, np.sqrt   *)
(* of a negative value and np.log of a non-positive one give nan.         *)
(***************************************************************************)
NaN == [k |-> "nan"]

\* a_=a+eps; b_=b+eps; c_=c+eps; d_=d+eps  (lines 74, 82, 90)
EpsCells(a, b, c, d) ==
    <<QAdd[QInt[a], Half], QAdd[QInt[b], Half], QAdd[QInt[c], Half], QAdd[QInt[d], Half]>>

\* lines 75-79 on the cells h
WaldCiPrr[h \in Seq(Rat)] ==
    IF \/ QIsZero(QAdd[h[1], h[2]]) \/ QIsZero(QAdd[h[3], h[4]])
       \/ QIsZero(h[3]) \/ QIsZero(h[1])
    THEN Raise("ZeroDivisionError")
    ELSE LET prr == QDiv[QDiv[h[1], QAdd[h[1], h[2]]], QDiv[h[3], QAdd[h[3], h[4]]]]
             rad == QSub[QAdd[QSub[QDiv[QOne, h[1]], QDiv[QOne, QAdd[h[1], h[2]]]],
                              QDiv[QOne, h[3]]],
                         QDiv[QOne, QAdd[h[3], h[4]]]]
         IN IF rad.s < 0 \/ prr.s <= 0 THEN Return(<<Fin(prr), NaN, NaN>>)
            ELSE Return(<<Fin(prr), Wald(prr, rad, -1), Wald(prr, rad, 1)>>)

\* lines 73-79
_wald_ci_prr(a, b, c, d) == WaldCiPrr[EpsCells(a, b, c, d)]

\* lines 83-87 on the cells h: ror = (a_*d_)/(b_*c_)
WaldCiRor[h \in Seq(Rat)] ==
    IF QIsZero(h[1]) \/ QIsZero(h[2]) \/ QIsZero(h[3]) \/ QIsZero(h[4])
    THEN Raise("ZeroDivisionError")
    ELSE LET ror == QDiv[QMul[h[1], h[4]], QMul[h[2], h[3]]]
             rad == QAdd[QAdd[QAdd[QDiv[QOne, h[1]], QDiv[QOne, h[2]]],
                              QDiv[QOne, h[3]]],
                         QDiv[QOne, h[4]]]
         IN IF rad.s < 0 \/ ror.s <= 0 THEN Return(<<Fin(ror), NaN, NaN>>)
            ELSE Return(<<Fin(ror), Wald(ror, rad, -1), Wald(ror, rad, 1)>>)

\* lines 81-87
_wald_ci_ror(a, b, c, d) == WaldCiRor[EpsCells(a, b, c, d)]

\* lines 91-93 on the cells h
ChiSquare[h \in Seq(Rat)] ==
    LET x   == QSub[QMul[h[1], h[4]], QMul[h[2], h[3]]]
        num == QMul[QMul[x, x], QAdd[QAdd[QAdd[h[1], h[2]], h[3]], h[4]]]
        den == QMul[QMul[QMul[QAdd[h[1], h[2]], QAdd[h[3], h[4]]],
                         QAdd[h[1], h[3]]],
                    QAdd[h[2], h[4]]]
    IN IF QIsZero(den) THEN Raise("ZeroDivisionError") ELSE Return(Fin(QDiv[num, den]))

\* lines 89-93
chi_square(a, b, c, d) == ChiSquare[EpsCells(a, b, c, d)]

(***************************************************************************)
(* add_stats of src/app.py (lines 95-109), one operator per statement.    *)
(***************************************************************************)
AppCols == {"N", "PRR", "PRR_LCL", "PRR_UCL", "ROR", "ROR_LCL", "ROR_UCL", "chi2", "flagged"}

\* lines 97-99: the nine columns, all empty
AppEmpty(f) == Frame(f.cols \cup AppCols, <<>>)

\* line 100
AppN(f) == WithColumn(f, "N", [i \in 1..NRows(f) |-> f.rows[i].a])

\* lines 101-103
AppPrrApply(f) ==
    [i \in 1..NRows(f) |-> _wald_ci_prr(f.rows[i].a, f.rows[i].b, f.rows[i].c, f.rows[i].d)]

AppPrr(f) ==
    LET v == AppPrrApply(f)
    IN WithColumn(WithColumn(WithColumn(f,
           "PRR", [i \in 1..NRows(f) |-> v[i].val[1]]),
           "PRR_LCL", [i \in 1..NRows(f) |-> v[i].val[2]]),
           "PRR_UCL", [i \in 1..NRows(f) |-> v[i].val[3]])

\* lines 104-106
AppRorApply(f) ==
    [i \in 1..NRows(f) |-> _wald_ci_ror(f.rows[i].a, f.rows[i].b, f.rows[i].c, f.rows[i].d)]

AppRor(f) ==
    LET v == AppRorApply(f)
    IN WithColumn(WithColumn(WithColumn(f,
           "ROR", [i \in 1..NRows(f) |-> v[i].val[1]]),
           "ROR_LCL", [i \in 1..NRows(f) |-> v[i].val[2]]),
           "ROR_UCL", [i \in 1..NRows(f) |-> v[i].val[3]])

\* line 107
AppChi2Apply(f) ==
    [i \in 1..NRows(f) |-> chi_square(f.rows[i].a, f.rows[i].b, f.rows[i].c, f.rows[i].d)]

AppChi2(f) == WithColumn(f, "chi2", [i \in 1..NRows(f) |-> AppChi2Apply(f)[i].val])

\* x >= q for a float x and a rational q; a comparison with nan is False
FloatGe(x, q) ==
    CASE x.k = "fin" -> QGe(x.q, q)
      [] x.k = "inf" -> TRUE
      [] OTHER -> FALSE

\* line 108
AppFlagged(f, prr_min, chi2_min, n_min) ==
    WithColumn(f, "flagged",
        [i \in 1..NRows(f) |-> /\ FloatGe(f.rows[i].PRR, QInt[prr_min])
                               /\ FloatGe(f.rows[i].chi2, QInt[chi2_min])
                               /\ f.rows[i].N >= n_min])

\* the selection that keeps every row
MaskKeepsAll(f, col) == f

(***************************************************************************)
(* pandas: the boolean mask, sort_values(by, ascending=False) and head.   *)
(* sort_values on several keys is a stable sort on each key in turn, the  *)
(* last key first (np.lexsort); rows with equal keys keep their order and *)
(* nan sorts last.                                                         *)
(***************************************************************************)
\* df[df[col]]
Mask(f, col) == Frame(f.cols, SelectSeq(f.rows, LAMBDA r : r[col]))

\* x is not after y in descending order
KeyGe(x, y) ==
    CASE y.k = "nan" -> TRUE
      [] x.k = "nan" -> FALSE
      [] x.k = "inf" -> TRUE
      [] y.k = "inf" -> FALSE
      [] OTHER -> QGe(x.q, y.q)

\* the stable sort of the rows on one column, descending: a row goes behind
\* the rows with a larger key and behind the earlier rows with an equal key
SortDesc(rows, col) ==
    LET n == Len(rows)
        place == [i \in 1..n |->
                     1 + Cardinality({j \in 1..n :
                             \/ ~KeyGe(rows[i][col], rows[j][col])
                             \/ KeyGe(rows[j][col], rows[i][col]) /\ j < i})] \o <<>>
    IN [p \in 1..n |-> rows[CHOOSE i \in 1..n : place[i] = p]] \o <<>>

\* the sort with the keys in the other order: chi2 first, PRR to break ties
sort_values_chi2_first(f) ==
    Frame(f.cols, SortDesc(SortDesc(f.rows, "PRR"), "chi2"))

\* .sort_values(["PRR", "chi2"], ascending=[False, False])
sort_values(f) ==
    Frame(f.cols, SortDesc(SortDesc(f.rows, "chi2"), "PRR"))

\* .head(n)
head(f, n) ==
    Frame(f.cols, SubSeq(f.rows, 1, IF n < NRows(f) THEN n ELSE NRows(f)))

\* the cut made before the sort
RankedHeadFirst(f, limit) == sort_values(head(f, limit))

\* .sort_values(...).head(limit).reset_index(drop=True): the rows are kept
\* by position, so that the new index is the position
Ranked(f, limit) == head(sort_values(f), limit)

(***************************************************************************)
(* The drug explorer, src/app/app.py: get_drug_rows (lines 105-180).  The *)
(* statistics are numpy expressions over whole columns; a numpy division  *)
(* by zero gives inf or nan and raises nothing.                            *)
(***************************************************************************)
EXP_MIN == 5

BG_MIN == 2000

TABLE_MIN == 10000

MAX_DISPLAY_ROWS == 60

\* x / y on float64 columns, x >= 0 and y >= 0
NpDiv[x \in Rat, y \in Rat] ==
    IF QIsZero(y) THEN (IF QIsZero(x) THEN NaN ELSE PosInf) ELSE Fin(QDiv[x, y])

\* lines 106-113: the WHERE clause of the query
DrugQuery(f, n_min) ==
    Frame(f.cols, SelectSeq(f.rows, LAMBDA r : /\ r.a + r.b + r.c + r.d >= TABLE_MIN
                                               /\ r.c + r.d >= BG_MIN
                                               /\ r.a >= n_min))

\* lines 123-131: the expected counts, from the raw cells
DrugExpected(f) ==
    LET n(r)  == QInt[r.a + r.b + r.c + r.d]
        r1(r) == QInt[r.a + r.b]
        r2(r) == QInt[r.c + r.d]
        c1(r) == QInt[r.a + r.c]
        c2(r) == QInt[r.b + r.d]
    IN WithColumn(WithColumn(WithColumn(WithColumn(f,
           "Ea", [i \in 1..NRows(f) |-> NpDiv[QMul[r1(f.rows[i]), c1(f.rows[i])], n(f.rows[i])]]),
           "Eb", [i \in 1..NRows(f) |-> NpDiv[QMul[r1(f.rows[i]), c2(f.rows[i])], n(f.rows[i])]]),
           "Ec", [i \in 1..NRows(f) |-> NpDiv[QMul[r2(f.rows[i]), c1(f.rows[i])], n(f.rows[i])]]),
           "Ed", [i \in 1..NRows(f) |-> NpDiv[QMul[r2(f.rows[i]), c2(f.rows[i])], n(f.rows[i])]])

\* lines 133-135
DrugTotals(f) ==
    WithColumn(WithColumn(WithColumn(f,
        "total", [i \in 1..NRows(f) |-> f.rows[i].a + f.rows[i].b + f.rows[i].c + f.rows[i].d]),
        "bg", [i \in 1..NRows(f) |-> f.rows[i].c + f.rows[i].d]),
        "N", [i \in 1..NRows(f) |-> f.rows[i].a])

\* lines 138-144: eps is 0.5 on the rows with a zero cell and 0.0 on the others
zeros_mask(r) == r.a = 0 \/ r.b = 0 \/ r.c = 0 \/ r.d = 0

\* eps = 0.5 for every row, whether it has a zero cell or not
VecCellsEpsEverywhere(r) ==
    <<QAdd[QInt[r.a], Half], QAdd[QInt[r.b], Half], QAdd[QInt[r.c], Half], QAdd[QInt[r.d], Half]>>

VecCells(r) ==
    LET eps == IF zeros_mask(r) THEN Half ELSE QZero
    IN <<QAdd[QInt[r.a], eps], QAdd[QInt[r.b], eps], QAdd[QInt[r.c], eps], QAdd[QInt[r.d], eps]>>

\* lines 146-151 on the cells h of one row
VecPrr[h \in Seq(Rat)] ==
    IF \/ QIsZero(QAdd[h[1], h[2]]) \/ QIsZero(QAdd[h[3], h[4]])
       \/ QIsZero(h[3]) \/ QIsZero(h[1])
    THEN <<NaN, NaN, NaN>>
    ELSE LET prr == QDiv[QDiv[h[1], QAdd[h[1], h[2]]], QDiv[h[3], QAdd[h[3], h[4]]]]
             rad == QSub[QAdd[QSub[QDiv[QOne, h[1]], QDiv[QOne, QAdd[h[1], h[2]]]],
                              QDiv[QOne, h[3]]],
                         QDiv[QOne, QAdd[h[3], h[4]]]]
         IN IF rad.s < 0 \/ prr.s <= 0 THEN <<Fin(prr), NaN, NaN>>
            ELSE <<Fin(prr), Wald(prr, rad, -1), Wald(prr, rad, 1)>>

DrugPrr(f) ==
    WithColumn(WithColumn(WithColumn(f,
        "PRR", [i \in 1..NRows(f) |-> VecPrr[VecCells(f.rows[i])][1]]),
        "PRR_LCL", [i \in 1..NRows(f) |-> VecPrr[VecCells(f.rows[i])][2]]),
        "PRR_UCL", [i \in 1..NRows(f) |-> VecPrr[VecCells(f.rows[i])][3]])

\* lines 153-158 on the cells h of one row
VecRor[h \in Seq(Rat)] ==
    IF QIsZero(h[1]) \/ QIsZero(h[2]) \/ QIsZero(h[3]) \/ QIsZero(h[4])
    THEN <<NaN, NaN, NaN>>
    ELSE LET ror == QDiv[QMul[h[1], h[4]], QMul[h[2], h[3]]]
             rad == QAdd[QAdd[QAdd[QDiv[QOne, h[1]], QDiv[QOne, h[2]]],
                              QDiv[QOne, h[3]]],
                         QDiv[QOne, h[4]]]
         IN IF rad.s < 0 \/ ror.s <= 0 THEN <<Fin(ror), NaN, NaN>>
            ELSE <<Fin(ror), Wald(ror, rad, -1), Wald(ror, rad, 1)>>

DrugRor(f) ==
    WithColumn(WithColumn(WithColumn(f,
        "ROR", [i \in 1..NRows(f) |-> VecRor[VecCells(f.rows[i])][1]]),
        "ROR_LCL", [i \in 1..NRows(f) |-> VecRor[VecCells(f.rows[i])][2]]),
        "ROR_UCL", [i \in 1..NRows(f) |-> VecRor[VecCells(f.rows[i])][3]])

\* lines 160-162 on the cells h of one row
VecChi2[h \in Seq(Rat)] ==
    LET x   == QSub[QMul[h[1], h[4]], QMul[h[2], h[3]]]
        num == QMul[QMul[x, x], QAdd[QAdd[QAdd[h[1], h[2]], h[3]], h[4]]]
        den == QMul[QMul[QMul[QAdd[h[1], h[2]], QAdd[h[3], h[4]]],
                         QAdd[h[1], h[3]]],
                    QAdd[h[2], h[4]]]
    IN NpDiv[num, den]

DrugChi2(f) == WithColumn(f, "chi2", [i \in 1..NRows(f) |-> VecChi2[VecCells(f.rows[i])]])

(***************************************************************************)
(* PRR_LCL > 1.0, that is ln(x) > 1.96 sqrt(r).  The logarithm is         *)
(* enclosed by its Pade approximants: for x > 1,                           *)
(*    3(x^2 - 1)/(x^2 + 4x + 1)  <  ln(x)  <  (x - 1)(x + 5)/(4x + 2).     *)
(* The comparison is decided when one of the two bounds decides it.       *)
(***************************************************************************)
LnLower[x \in Rat] ==
    QDiv[QMul[QInt[3], QSub[QMul[x, x], QOne]],
         QAdd[QAdd[QMul[x, x], QMul[QInt[4], x]], QOne]]

LnUpper[x \in Rat] ==
    QDiv[QMul[QSub[x, QOne], QAdd[x, QInt[5]]],
         QAdd[QMul[QInt[4], x], QInt[2]]]

\* 1.96^2 = 3.8416
Z2 == QFrac[2401, 625]

\* the lower bound of ln(x) is above 1.96 sqrt(r)
WaldGtOne(w) ==
    /\ w.k = "wald"
    /\ QGt(w.x, QOne)
    /\ QGt(QMul[LnLower[w.x], LnLower[w.x]], QMul[Z2, w.r])

\* the upper bound of ln(x) is not above 1.96 sqrt(r)
WaldLeOne(w) ==
    \/ w.k # "wald"
    \/ QLe(w.x, QOne)
    \/ QLe(QMul[LnUpper[w.x], LnUpper[w.x]], QMul[Z2, w.r])

\* the guardrails without the lower confidence limit
DrugFlaggedWithoutLcl(f, prr_min, chi2_min, n_min) ==
    WithColumn(f, "flagged",
        [i \in 1..NRows(f) |->
            /\ FloatGe(f.rows[i].PRR, QInt[prr_min])
            /\ FloatGe(f.rows[i].chi2, QInt[chi2_min])
            /\ f.rows[i].N >= n_min
            /\ \A col \in {"Ea", "Eb", "Ec", "Ed"} : FloatGe(f.rows[i][col], QInt[EXP_MIN])
            /\ f.rows[i].PRR.k = "fin"])

\* lines 164-173
DrugFlagged(f, prr_min, chi2_min, n_min) ==
    WithColumn(f, "flagged",
        [i \in 1..NRows(f) |->
            /\ FloatGe(f.rows[i].PRR, QInt[prr_min])
            /\ FloatGe(f.rows[i].chi2, QInt[chi2_min])
            /\ f.rows[i].N >= n_min
            /\ \A col \in {"Ea", "Eb", "Ec", "Ed"} : FloatGe(f.rows[i][col], QInt[EXP_MIN])
            /\ WaldGtOne(f.rows[i].PRR_LCL)
            /\ f.rows[i].PRR.k = "fin"])

(***************************************************************************)
(* The inputs.                                                             *)
(***************************************************************************)
MaxCell == 3

MaxRows == 2

\* how far below zero a cell of an unvalidated table may be
NegCells == 1

PrrMins == {1, 2}

Chi2Mins == {1, 4}

NMins == {1, 3}

Table(a, b, c, d) == [a |-> a, b |-> b, c |-> c, d |-> d]

Tables == {Table(a, b, c, d) : a \in 0..MaxCell, b \in 0..MaxCell,
                               c \in 0..MaxCell, d \in 0..MaxCell}

\* tables for the frames of several rows: both row totals are MaxCell
BatchTables == {Table(x, MaxCell - x, y, MaxCell - y) : x \in 0..MaxCell, y \in 0..1}

RECURSIVE SeqsUpTo(_, _)
SeqsUpTo(S, n) ==
    IF n = 0 THEN {<<>>}
    ELSE LET shorter == SeqsUpTo(S, n - 1)
         IN shorter \cup {Append(q, x) : q \in {r \in shorter : Len(r) = n - 1}, x \in S}

\* the frame of the tables ts, labelled by position
InputFrame(ts) ==
    Frame(InputCols, [i \in 1..Len(ts) |-> ("pt" :> i) @@ ts[i]])

InputFrames == {InputFrame(<<t>>) : t \in Tables}
               \cup {InputFrame(ts) : ts \in SeqsUpTo(BatchTables, MaxRows)}

Thresholds == [prr_min : PrrMins, chi2_min : Chi2Mins, n_min : NMins]

(***************************************************************************)
(* State: the caller's frame df, the call's arguments args, the position  *)
(* pc in the called function, its working frame out (the returned frame   *)
(* once pc = "done") and the exception exc it raised (pc = "raised").     *)
(***************************************************************************)
VARIABLES df, args, pc, out, exc

vars == <<df, args, pc, out, exc>>

Init ==
    /\ df \in InputFrames
    /\ args \in Thresholds
    /\ pc = "add_stats"
    /\ out = Frame({}, <<>>)
    /\ exc = "none"

\* lines 59-63
AddStatsCopy ==
    /\ pc = "add_stats"
    /\ IF NRows(df) = 0
       THEN out' = StatsEmpty(df) /\ pc' = "done"
       ELSE out' = df /\ pc' = "N"
    /\ UNCHANGED <<df, args, exc>>

\* line 65
AddStatsN ==
    /\ pc = "N"
    /\ out' = StatsN(out)
    /\ pc' = "PRR"
    /\ UNCHANGED <<df, args, exc>>

\* lines 67-68
AddStatsPrr ==
    /\ pc = "PRR"
    /\ LET e == FirstRaise(StatsPrrApply(out))
       IN IF e = "none"
          THEN out' = StatsPrr(out) /\ pc' = "ROR" /\ exc' = exc
          ELSE out' = out /\ pc' = "raised" /\ exc' = e
    /\ UNCHANGED <<df, args>>

\* lines 70-71
AddStatsRor ==
    /\ pc = "ROR"
    /\ LET e == FirstRaise(StatsRorApply(out))
       IN IF e = "none"
          THEN out' = StatsRor(out) /\ pc' = "chi2" /\ exc' = exc
          ELSE out' = out /\ pc' = "raised" /\ exc' = e
    /\ UNCHANGED <<df, args>>

\* line 73
AddStatsChi2 ==
    /\ pc = "chi2"
    /\ out' = StatsChi2(out)
    /\ pc' = "stability"
    /\ UNCHANGED <<df, args, exc>>

\* lines 76-77
AddStatsStability ==
    /\ pc = "stability"
    /\ out' = StatsStability(out)
    /\ pc' = "flagged"
    /\ UNCHANGED <<df, args, exc>>

\* lines 79-80
AddStatsFlagged ==
    /\ pc = "flagged"
    /\ out' = StatsFlagged(out, args.prr_min, args.chi2_min, args.n_min)
    /\ pc' = "done"
    /\ UNCHANGED <<df, args, exc>>

AddStats ==
    \/ AddStatsCopy
    \/ AddStatsN
    \/ AddStatsPrr
    \/ AddStatsRor
    \/ AddStatsChi2
    \/ AddStatsStability
    \/ AddStatsFlagged

Next == AddStats

Spec == Init /\ [][Next]_vars

\* stats.add_stats called on a table that nothing validated: a cell may be negative
UncheckedTables == {Table(a, b, c, d) : a \in -NegCells..MaxCell, b \in -NegCells..MaxCell,
                                        c \in -NegCells..MaxCell, d \in -NegCells..MaxCell}

InitUnchecked ==
    /\ df \in {InputFrame(<<t>>) : t \in UncheckedTables}
    /\ args \in Thresholds
    /\ pc = "add_stats"
    /\ out = Frame({}, <<>>)
    /\ exc = "none"

SpecUnchecked == InitUnchecked /\ [][Next]_vars

(***************************************************************************)
(* The ranked queries: fetch_top_signals (src/app.py:59-70) reads the     *)
(* whole view and get_drug_rows (src/app/app.py:105-180) the rows of one  *)
(* drug.  df is the content of the view, respectively of the snapshot.    *)
(***************************************************************************)
MaxRanked == 3

DefaultLimit == 25

Limits == {1, 2, DefaultLimit}

\* (PRR, chi2) under eps = 0.5: (5, 2.13), (5, 2.67), (7, 4.5), (2.92, 2.98)
RankTables == {Table(2, 1, 0, 3), Table(2, 0, 0, 2), Table(3, 0, 0, 3), Table(3, 0, 1, 3)}

TopArgs == [prr_min : {2}, chi2_min : {1}, n_min : NMins, limit : Limits]

\* tables of the size the guardrails ask for, and tables below it
DrugTables == {Table(50, 950, 100, 9900), Table(5, 5, 10, 9990),
               Table(15, 985, 100, 9900), Table(50, 0, 950, 9001),
               Table(50, 50, 100, 1900), Table(50, 9950, 100, 900)}

\* a frame longer than the display cap: row i is the table (50 + k, 950, 100, 9900)
\* with k = 7 i mod 11
LongFrame(n) ==
    InputFrame([i \in 1..n |-> Table(50 + ((7 * i) % 11), 950, 100, 9900)])

DrugFrames == {InputFrame(ts) : ts \in SeqsUpTo(DrugTables, MaxRows)}
              \cup {LongFrame(MAX_DISPLAY_ROWS + MaxRows)}

DrugArgs == [prr_min : {1}, chi2_min : {1}, n_min : {1, 6}, flagged_only : BOOLEAN]

InitRanked ==
    /\ \/ /\ pc = "fetch_top_signals"
          /\ df \in {InputFrame(ts) : ts \in SeqsUpTo(RankTables, MaxRanked)}
          /\ args \in TopArgs
       \/ /\ pc = "get_drug_rows"
          /\ df \in DrugFrames
          /\ args \in DrugArgs
    /\ out = Frame({}, <<>>)
    /\ exc = "none"

\* src/app.py:62-66 and 96-99: the view is read, add_stats copies it
FetchRead ==
    /\ pc = "fetch_top_signals"
    /\ IF NRows(df) = 0
       THEN out' = AppEmpty(df) /\ pc' = "top_mask"
       ELSE out' = df /\ pc' = "app_N"
    /\ UNCHANGED <<df, args, exc>>

\* src/app.py:100
FetchN ==
    /\ pc = "app_N"
    /\ out' = AppN(out)
    /\ pc' = "app_PRR"
    /\ UNCHANGED <<df, args, exc>>

\* src/app.py:101-103
FetchPrr ==
    /\ pc = "app_PRR"
    /\ LET e == FirstRaise(AppPrrApply(out))
       IN IF e = "none"
          THEN out' = AppPrr(out) /\ pc' = "app_ROR" /\ exc' = exc
          ELSE out' = out /\ pc' = "raised" /\ exc' = e
    /\ UNCHANGED <<df, args>>

\* src/app.py:104-106
FetchRor ==
    /\ pc = "app_ROR"
    /\ LET e == FirstRaise(AppRorApply(out))
       IN IF e = "none"
          THEN out' = AppRor(out) /\ pc' = "app_chi2" /\ exc' = exc
          ELSE out' = out /\ pc' = "raised" /\ exc' = e
    /\ UNCHANGED <<df, args>>

\* src/app.py:107
FetchChi2 ==
    /\ pc = "app_chi2"
    /\ LET e == FirstRaise(AppChi2Apply(out))
       IN IF e = "none"
          THEN out' = AppChi2(out) /\ pc' = "app_flagged" /\ exc' = exc
          ELSE out' = out /\ pc' = "raised" /\ exc' = e
    /\ UNCHANGED <<df, args>>

\* src/app.py:108-109
FetchFlagged ==
    /\ pc = "app_flagged"
    /\ out' = AppFlagged(out, args.prr_min, args.chi2_min, args.n_min)
    /\ pc' = "top_mask"
    /\ UNCHANGED <<df, args, exc>>

\* src/app.py:67.  The flagged column of the empty frame is an empty column
\* that is not boolean: pandas reads df[...] with it as a selection of no
\* columns.
FetchMask ==
    /\ pc = "top_mask"
    /\ out' = IF NRows(df) = 0 THEN Frame({}, <<>>) ELSE Mask(out, "flagged")
    /\ pc' = "top_rank"
    /\ UNCHANGED <<df, args, exc>>

\* src/app.py:68-70; sort_values raises KeyError on a missing column
FetchRank ==
    /\ pc = "top_rank"
    /\ IF {"PRR", "chi2"} \subseteq out.cols
       THEN out' = Ranked(out, args.limit) /\ pc' = "done" /\ exc' = exc
       ELSE out' = out /\ pc' = "raised" /\ exc' = "KeyError"
    /\ UNCHANGED <<df, args>>

FetchTopSignals ==
    \/ FetchRead
    \/ FetchN
    \/ FetchPrr
    \/ FetchRor
    \/ FetchChi2
    \/ FetchFlagged
    \/ FetchMask
    \/ FetchRank

\* src/app/app.py:106-120: the query, the early return, the cast to float
GetDrugQuery ==
    /\ pc = "get_drug_rows"
    /\ out' = DrugQuery(df, args.n_min)
    /\ pc' = IF NRows(DrugQuery(df, args.n_min)) = 0 THEN "done" ELSE "expected"
    /\ UNCHANGED <<df, args, exc>>

\* src/app/app.py:123-131
GetDrugExpected ==
    /\ pc = "expected"
    /\ out' = DrugExpected(out)
    /\ pc' = "totals"
    /\ UNCHANGED <<df, args, exc>>

\* src/app/app.py:133-135
GetDrugTotals ==
    /\ pc = "totals"
    /\ out' = DrugTotals(out)
    /\ pc' = "vec_PRR"
    /\ UNCHANGED <<df, args, exc>>

\* src/app/app.py:138-151
GetDrugPrr ==
    /\ pc = "vec_PRR"
    /\ out' = DrugPrr(out)
    /\ pc' = "vec_ROR"
    /\ UNCHANGED <<df, args, exc>>

\* src/app/app.py:153-158
GetDrugRor ==
    /\ pc = "vec_ROR"
    /\ out' = DrugRor(out)
    /\ pc' = "vec_chi2"
    /\ UNCHANGED <<df, args, exc>>

\* src/app/app.py:160-162
GetDrugChi2 ==
    /\ pc = "vec_chi2"
    /\ out' = DrugChi2(out)
    /\ pc' = "guardrails"
    /\ UNCHANGED <<df, args, exc>>

\* src/app/app.py:164-173
GetDrugFlagged ==
    /\ pc = "guardrails"
    /\ out' = DrugFlagged(out, args.prr_min, args.chi2_min, args.n_min)
    /\ pc' = "rank"
    /\ UNCHANGED <<df, args, exc>>

\* src/app/app.py:175-180
GetDrugRank ==
    /\ pc = "rank"
    /\ out' = Ranked(IF args.flagged_only THEN Mask(out, "flagged") ELSE out,
                     MAX_DISPLAY_ROWS)
    /\ pc' = "done"
    /\ UNCHANGED <<df, args, exc>>

GetDrugRows ==
    \/ GetDrugQuery
    \/ GetDrugExpected
    \/ GetDrugTotals
    \/ GetDrugPrr
    \/ GetDrugRor
    \/ GetDrugChi2
    \/ GetDrugFlagged
    \/ GetDrugRank

NextRanked == FetchTopSignals \/ GetDrugRows

SpecRanked == InitRanked /\ [][NextRanked]_vars

(***************************************************************************)
(* Vocabulary of the properties.  The corrected cells are compared in     *)
(* integers: twice the corrected cell is 2x + 1 when the table has a zero *)
(* cell and 2x when it has none.                                           *)
(***************************************************************************)
HasZero(r) == r.a = 0 \/ r.b = 0 \/ r.c = 0 \/ r.d = 0

AnyNegative(r) == r.a < 0 \/ r.b < 0 \/ r.c < 0 \/ r.d < 0

Twice(r, x) == 2 * x + (IF HasZero(r) THEN 1 ELSE 0)

\* PRR >= t on the corrected cells:  a'(c'+d') >= t c'(a'+b')
PrrGeInt(r, t) ==
    Twice(r, r.a) * (Twice(r, r.c) + Twice(r, r.d))
        >= t * Twice(r, r.c) * (Twice(r, r.a) + Twice(r, r.b))

\* chi2 >= t on the corrected cells:  (a'd' - b'c')^2 n >= t r1 r2 c1 c2
Chi2GeInt(r, t) ==
    LET A == Twice(r, r.a)
        B == Twice(r, r.b)
        C == Twice(r, r.c)
        D == Twice(r, r.d)
        X == A * D - B * C
    IN X * X * (A + B + C + D) >= 2 * t * (A + B) * (C + D) * (A + C) * (B + D)

Balanced(r) ==
    r.a + r.b > 0 /\ r.c + r.d > 0 /\ r.a * (r.c + r.d) = r.c * (r.a + r.b)

IsOne(f) == f.k = "fin" /\ QEq(f.q, QOne)

IsNought(f) == f.k = "fin" /\ QIsZero(f.q)

\* the whole of stats.add_stats (src/src/stats.py:54-80) on the frame f
AddStatsFrame(f, th) ==
    IF NRows(f) = 0 THEN StatsEmpty(f)
    ELSE CHOOSE g \in {StatsFlagged(s5, th.prr_min, th.chi2_min, th.n_min) :
                 s5 \in {StatsStability(s4) :
                 s4 \in {StatsChi2(s3) :
                 s3 \in {StatsRor(s2) :
                 s2 \in {StatsPrr(s1) :
                 s1 \in {StatsN(f)}}}}}} : TRUE

StatRecord(row) == [col \in StatsCols |-> row[col]]

Cells(r) == Table(r.a, r.b, r.c, r.d)

(***************************************************************************)
(* C1.  apply_haldane_if_zero is all-or-nothing: a table with a zero cell *)
(* gets 0.5 added to each of its four cells, a table without one is       *)
(* returned unchanged; no table gets only some cells corrected.           *)
(***************************************************************************)
C1_HaldaneAllOrNothing ==
    \A i \in 1..NRows(df) :
        LET r   == df.rows[i]
            raw == <<r.a, r.b, r.c, r.d>>
            h   == apply_haldane_if_zero(r.a, r.b, r.c, r.d)
        IN /\ HasZero(r) => \A k \in 1..4 : QEq(QMul[h[k], QInt[2]], QInt[2 * raw[k] + 1])
           /\ ~HasZero(r) => \A k \in 1..4 : QEq(h[k], QInt[raw[k]])

\* prr_ci has run on a table with one zero cell and three others: the PRR it
\* stored is that of the table with all four cells corrected
C1_Witness ==
    /\ pc = "ROR"
    /\ \E i \in 1..NRows(out) :
          LET r == out.rows[i]
          IN /\ r.a = 0 /\ r.b > 0 /\ r.c > 0 /\ r.d > 0
             /\ QEq(r.PRR.q, QFrac[(2 * r.c + 2 * r.d + 2), (2 * r.c + 1) * (2 * r.a + 2 * r.b + 2)])

(***************************************************************************)
(* C2.  Base mode: a row is flagged exactly when PRR >= prr_min and       *)
(* chi2 >= chi2_min on the corrected cells and the raw cell a >= n_min.   *)
(***************************************************************************)
C2_BaseFlagIff ==
    pc = "done" =>
        \A i \in 1..NRows(out) :
            out.rows[i].flagged <=>
                /\ PrrGeInt(df.rows[i], args.prr_min)
                /\ Chi2GeInt(df.rows[i], args.chi2_min)
                /\ df.rows[i].a >= args.n_min

\* a corrected table is flagged with exactly n_min cases
C2_Witness ==
    /\ pc = "done"
    /\ \E i \in 1..NRows(out) :
          out.rows[i].flagged /\ HasZero(out.rows[i]) /\ out.rows[i].N = args.n_min

(***************************************************************************)
(* C3.  A table with a negative cell is rejected: add_stats does not      *)
(* return normally on it.                                                  *)
(***************************************************************************)
C3_NegativeTableRejected ==
    (\E i \in 1..NRows(df) : AnyNegative(df.rows[i])) => pc # "done"

(***************************************************************************)
(* C4.  On non-negative tables prr_ci, ror_ci and chi2_pearson never      *)
(* raise and never return infinity: PRR > 0, ROR > 0, chi2 >= 0, and the  *)
(* four bounds are exponentials of defined real numbers.                   *)
(***************************************************************************)
C4_NoRaiseAllFinite ==
    /\ pc # "raised"
    /\ exc = "none"
    /\ pc = "done" =>
          \A i \in 1..NRows(out) :
              LET r == out.rows[i]
              IN /\ r.PRR.k = "fin" /\ r.PRR.q.s = 1
                 /\ r.ROR.k = "fin" /\ r.ROR.q.s = 1
                 /\ r.chi2.k = "fin" /\ r.chi2.q.s >= 0
                 /\ WaldPositive(r.PRR_LCL) /\ WaldPositive(r.PRR_UCL)
                 /\ WaldPositive(r.ROR_LCL) /\ WaldPositive(r.ROR_UCL)

\* the empty comparator, and the table of four zeros
C4_Witness ==
    /\ pc = "done"
    /\ \E i \in 1..NRows(out) :
          /\ out.rows[i].c = 0 /\ out.rows[i].d = 0
          /\ out.rows[i].a = out.rows[i].b
          /\ out.rows[i].PRR.k = "fin"

(***************************************************************************)
(* C5 as claimed.  Every balanced table, a(c+d) = c(a+b) with both rows   *)
(* non-empty, has PRR = 1 and chi2 = 0 -- also one with a zero cell.      *)
(***************************************************************************)
C5_BalancedAnyTable ==
    pc = "done" =>
        \A i \in 1..NRows(out) :
            Balanced(df.rows[i]) => IsOne(out.rows[i].PRR) /\ IsNought(out.rows[i].chi2)

(***************************************************************************)
(* C5 as amended.  Every balanced table without a zero cell has PRR = 1   *)
(* and chi2 = 0.                                                           *)
(***************************************************************************)
C5_BalancedNoZeroCell ==
    pc = "done" =>
        \A i \in 1..NRows(out) :
            Balanced(df.rows[i]) /\ ~HasZero(df.rows[i])
                => IsOne(out.rows[i].PRR) /\ IsNought(out.rows[i].chi2)

\* a balanced table of two different rows, no cell zero
C5_Witness ==
    /\ pc = "done"
    /\ \E i \in 1..NRows(out) :
          /\ Balanced(df.rows[i]) /\ ~HasZero(df.rows[i])
          /\ df.rows[i].a # df.rows[i].c
          /\ IsOne(out.rows[i].PRR)

(***************************************************************************)
(* C6.  The Wald bounds bracket the point estimate they are built around: *)
(* PRR_LCL <= PRR <= PRR_UCL and ROR_LCL <= ROR <= ROR_UCL, all bounds    *)
(* positive.                                                               *)
(***************************************************************************)
Brackets(lcl, est, ucl) ==
    /\ est.k = "fin" /\ lcl.k = "wald" /\ ucl.k = "wald"
    /\ QEq(lcl.x, est.q) /\ WaldLeEst(lcl) /\ WaldPositive(lcl)
    /\ QEq(ucl.x, est.q) /\ EstLeWald(ucl) /\ WaldPositive(ucl)

C6_WaldBrackets ==
    pc = "done" =>
        \A i \in 1..NRows(out) :
            /\ Brackets(out.rows[i].PRR_LCL, out.rows[i].PRR, out.rows[i].PRR_UCL)
            /\ Brackets(out.rows[i].ROR_LCL, out.rows[i].ROR, out.rows[i].ROR_UCL)

\* a corrected table (a = 0) and its interval of positive width
C6_Witness ==
    /\ pc = "done"
    /\ \E i \in 1..NRows(out) :
          /\ out.rows[i].a = 0 /\ out.rows[i].b > 0
          /\ out.rows[i].PRR_LCL.r.s = 1 /\ out.rows[i].ROR_UCL.r.s = 1

(***************************************************************************)
(* C10.  The record of a row depends on the row's cells and the           *)
(* thresholds only: in any frame it is the record the row gets when it is *)
(* the only row.                                                           *)
(***************************************************************************)
C10_RowIndependent ==
    pc = "done" =>
        \A i \in 1..NRows(out) :
            StatRecord(out.rows[i])
                = StatRecord(AddStatsFrame(InputFrame(<<Cells(df.rows[i])>>), args).rows[1])

\* a frame of two different rows, one flagged and one not
C10_Witness ==
    /\ pc = "done"
    /\ NRows(out) >= 2
    /\ Cells(out.rows[1]) # Cells(out.rows[2])
    /\ out.rows[1].flagged # out.rows[2].flagged

(***************************************************************************)
(* Vocabulary of the properties of the ranked queries.  The statistics of *)
(* a row are recomputed from its raw cells: twice the cell the call       *)
(* computes on is 2x + 1 where the call adds 0.5 and 2x where it does not.*)
(***************************************************************************)
IsDrugCall == "flagged_only" \in DOMAIN args

Corrects(r) == IF IsDrugCall THEN HasZero(r) ELSE TRUE

Cell2(r, x) == QInt[2 * x + (IF Corrects(r) THEN 1 ELSE 0)]

\* PRR = a'(c' + d') / (c'(a' + b'))
PrrOf(r) ==
    QDiv[QMul[Cell2(r, r.a), QAdd[Cell2(r, r.c), Cell2(r, r.d)]],
         QMul[Cell2(r, r.c), QAdd[Cell2(r, r.a), Cell2(r, r.b)]]]

\* chi2 = (a'd' - b'c')^2 n' / (r1 r2 c1 c2), with every quantity doubled
Chi2Of(r) ==
    LET A == Cell2(r, r.a)
        B == Cell2(r, r.b)
        C == Cell2(r, r.c)
        D == Cell2(r, r.d)
        X == QSub[QMul[A, D], QMul[B, C]]
    IN QDiv[QMul[QMul[X, X], QAdd[QAdd[A, B], QAdd[C, D]]],
            QMul[QInt[2], QMul[QMul[QAdd[A, B], QAdd[C, D]], QMul[QAdd[A, C], QAdd[B, D]]]]]

\* the radicand of the standard error of ln(PRR): b'/(a'(a'+b')) + d'/(c'(c'+d'))
PrrRadicandOf(r) ==
    QMul[QInt[2],
         QAdd[QDiv[Cell2(r, r.b), QMul[Cell2(r, r.a), QAdd[Cell2(r, r.a), Cell2(r, r.b)]]],
              QDiv[Cell2(r, r.d), QMul[Cell2(r, r.c), QAdd[Cell2(r, r.c), Cell2(r, r.d)]]]]]

BaseRule(r) ==
    /\ QGe(PrrOf(r), QInt[args.prr_min])
    /\ QGe(Chi2Of(r), QInt[args.chi2_min])
    /\ r.a >= args.n_min

\* every expected count, row total times column total over n, is at least EXP_MIN
ExpectedAtLeast(r) ==
    LET n == r.a + r.b + r.c + r.d
    IN /\ (r.a + r.b) * (r.a + r.c) >= EXP_MIN * n
       /\ (r.a + r.b) * (r.b + r.d) >= EXP_MIN * n
       /\ (r.c + r.d) * (r.a + r.c) >= EXP_MIN * n
       /\ (r.c + r.d) * (r.b + r.d) >= EXP_MIN * n

LclOf(r) == Wald(PrrOf(r), PrrRadicandOf(r), -1)

Prefilter(r) ==
    /\ r.a + r.b + r.c + r.d >= TABLE_MIN
    /\ r.c + r.d >= BG_MIN
    /\ r.a >= args.n_min

\* r ranks strictly above s in the order (PRR, chi2)
RanksAbove(r, s) ==
    \/ QGt(PrrOf(r), PrrOf(s))
    \/ QEq(PrrOf(r), PrrOf(s)) /\ QGt(Chi2Of(r), Chi2Of(s))

Eligible(r) ==
    IF IsDrugCall
    THEN /\ Prefilter(r)
         /\ args.flagged_only => BaseRule(r) /\ ExpectedAtLeast(r) /\ WaldGtOne(LclOf(r))
    ELSE BaseRule(r)

EligiblePts == {i \in 1..NRows(df) : Eligible(df.rows[i])}

KeptPts == {out.rows[i].pt : i \in 1..NRows(out)}

RankLimit == IF IsDrugCall THEN MAX_DISPLAY_ROWS ELSE args.limit

(***************************************************************************)
(* C7.  get_drug_rows flags a returned row only if the row passes the     *)
(* base rule and every guardrail: all four expected counts >= 5,          *)
(* PRR_LCL > 1.0, PRR finite, c + d >= 2000 and a + b + c + d >= 10000.   *)
(* (The comparison of PRR_LCL with 1.0 is decided for every row.)         *)
(***************************************************************************)
C7_GuardrailsAllRequired ==
    pc = "done" /\ IsDrugCall /\ "flagged" \in out.cols =>
        \A i \in 1..NRows(out) :
            LET r == out.rows[i]
            IN /\ WaldGtOne(LclOf(r)) \/ WaldLeOne(LclOf(r))
               /\ r.flagged =>
                     /\ BaseRule(r)
                     /\ ExpectedAtLeast(r)
                     /\ WaldGtOne(LclOf(r))
                     /\ r.PRR.k = "fin"
                     /\ r.c + r.d >= BG_MIN
                     /\ r.a + r.b + r.c + r.d >= TABLE_MIN

\* two returned rows pass the base rule and are left unflagged, one for its
\* lower confidence limit only and one for an expected count only
C7_Witness ==
    /\ pc = "done" /\ IsDrugCall /\ "flagged" \in out.cols
    /\ \E j, k \in 1..NRows(out) :
          /\ ~out.rows[j].flagged /\ BaseRule(out.rows[j])
          /\ ExpectedAtLeast(out.rows[j]) /\ WaldLeOne(LclOf(out.rows[j]))
          /\ ~out.rows[k].flagged /\ BaseRule(out.rows[k])
          /\ ~ExpectedAtLeast(out.rows[k]) /\ WaldGtOne(LclOf(out.rows[k]))

(***************************************************************************)
(* C8.  The rows a ranked query returns are in descending lexicographic   *)
(* order of (PRR, chi2): of two consecutive rows the first has the larger *)
(* PRR, or the same PRR and a chi2 at least as large.                      *)
(***************************************************************************)
C8_RankedDescending ==
    pc = "done" =>
        \A i \in 1..(NRows(out) - 1) :
            LET r == out.rows[i]
                s == out.rows[i + 1]
            IN /\ r.PRR.k = "fin" /\ s.PRR.k = "fin" /\ r.chi2.k = "fin" /\ s.chi2.k = "fin"
               /\ \/ QGt(r.PRR.q, s.PRR.q)
                  \/ QEq(r.PRR.q, s.PRR.q) /\ QGe(r.chi2.q, s.chi2.q)

\* three rows in a row: the same PRR with the larger chi2 first, then a
\* smaller PRR with a chi2 larger than both
C8_Witness ==
    /\ pc = "done"
    /\ \E i \in 1..(NRows(out) - 2) :
          /\ QEq(out.rows[i].PRR.q, out.rows[i + 1].PRR.q)
          /\ QGt(out.rows[i].chi2.q, out.rows[i + 1].chi2.q)
          /\ QGt(out.rows[i + 1].PRR.q, out.rows[i + 2].PRR.q)
          /\ QGt(out.rows[i + 2].chi2.q, out.rows[i].chi2.q)
          /\ out.rows[i].pt > out.rows[i + 1].pt

(***************************************************************************)
(* C9.  The cut is made after the sort: a ranked query returns            *)
(* min(limit, number of eligible rows) rows, all of them eligible, and no *)
(* eligible row that was cut ranks strictly above a row that was kept.    *)
(***************************************************************************)
C9_CutAfterSort ==
    pc = "done" =>
        /\ NRows(out) = IF RankLimit < Cardinality(EligiblePts)
                        THEN RankLimit ELSE Cardinality(EligiblePts)
        /\ Cardinality(KeptPts) = NRows(out)
        /\ KeptPts \subseteq EligiblePts
        /\ \A i \in EligiblePts \ KeptPts :
              \A j \in KeptPts : ~RanksAbove(df.rows[i], df.rows[j])

\* get_drug_rows cuts at MAX_DISPLAY_ROWS, and a row it kept stood behind
\* a row it cut
C9_Witness ==
    /\ pc = "done" /\ IsDrugCall
    /\ NRows(out) = MAX_DISPLAY_ROWS
    /\ Cardinality(EligiblePts) > MAX_DISPLAY_ROWS
    /\ \E i \in EligiblePts \ KeptPts : \E j \in KeptPts : i < j

(***************************************************************************)
(* C11.  The correction and the statistics never modify the raw table:    *)
(* the caller's frame keeps its input columns and rows, and at every step *)
(* of add_stats after the copy, and in the returned frame, the columns    *)
(* pt, a, b, c, d of each row hold the caller's raw integer counts, also  *)
(* in the rows the correction was applied to.                             *)
(***************************************************************************)
C11_RawCellsKept ==
    /\ df \in InputFrames
    /\ pc \in {"N", "PRR", "ROR", "chi2", "stability", "flagged", "done"} =>
          /\ NRows(out) = NRows(df)
          /\ InputCols \subseteq out.cols
          /\ \A i \in 1..NRows(out) :
                /\ out.rows[i].pt = df.rows[i].pt
                /\ Cells(out.rows[i]) = Cells(df.rows[i])

\* a returned row whose cell d is still 0 next to an ROR computed on the
\* corrected cells
C11_Witness ==
    /\ pc = "done"
    /\ \E i \in 1..NRows(out) :
          LET r == out.rows[i]
          IN /\ r.d = 0 /\ r.a > 0 /\ df.rows[i].d = 0
             /\ QEq(r.ROR.q, QFrac[2 * r.a + 1, (2 * r.b + 1) * (2 * r.c + 1)])

(***************************************************************************)
(* stats.add_stats with its default thresholds on a frame of one row, for *)
(* every table of the model: the three statistics of a row depend on the  *)
(* row's cells only.                                                       *)
(***************************************************************************)
\* the defaults of add_stats (src/src/stats.py:54)
DefaultThresholds == [prr_min |-> 2, chi2_min |-> 4, n_min |-> 3]

InitRows ==
    /\ df \in {InputFrame(<<t>>) : t \in Tables}
    /\ args = DefaultThresholds
    /\ pc = "add_stats"
    /\ out = Frame({}, <<>>)
    /\ exc = "none"

SpecRows == InitRows /\ [][Next]_vars

(***************************************************************************)
(* The corrected cells of a row in integers: A = 2a', B = 2b', C = 2c',   *)
(* D = 2d'.                                                                *)
(***************************************************************************)
Doubled(r) == [A |-> Twice(r, r.a), B |-> Twice(r, r.b), C |-> Twice(r, r.c), D |-> Twice(r, r.d)]

(***************************************************************************)
(* C12.  chi2_pearson returns the Pearson statistic without Yates         *)
(* correction on the corrected cells: for every table of non-negative     *)
(* integers  chi2 (a'+b')(c'+d')(a'+c')(b'+d') = (a'd' - b'c')^2 N  with   *)
(* N = a'+b'+c'+d'  (in the doubled cells: chi2 * 2 R1 R2 C1 C2 = X^2 S). *)
(***************************************************************************)
C12_Chi2IsPearson ==
    pc = "done" =>
        \A i \in 1..NRows(out) :
            LET t == Doubled(df.rows[i])
                X == t.A * t.D - t.B * t.C
            IN /\ out.rows[i].chi2.k = "fin"
               /\ QEq(QMul[out.rows[i].chi2.q,
                           QInt[2 * (t.A + t.B) * (t.C + t.D) * (t.A + t.C) * (t.B + t.D)]],
                      QInt[X * X * (t.A + t.B + t.C + t.D)])

\* a corrected table with two zero cells and chi2 > 1
C12_Witness ==
    /\ pc = "done"
    /\ \E i \in 1..NRows(out) :
          /\ out.rows[i].b = 0 /\ out.rows[i].c = 0
          /\ QGt(out.rows[i].chi2.q, QOne)

C14_RorIsOddsRatio ==
    pc = "done" =>
        \A i \in 1..NRows(out) :
            LET t == Doubled(df.rows[i])
            IN /\ out.rows[i].ROR.k = "fin"
               /\ QEq(QMul[out.rows[i].ROR.q, QInt[t.B * t.C]], QInt[t.A * t.D])

\* a table with b = 0, whose raw odds a/b are undefined: the ROR is finite
\* and above 1
C14_Witness ==
    /\ pc = "done"
    /\ \E i \in 1..NRows(out) :
          LET r == out.rows[i]
          IN /\ r.b = 0 /\ r.a > 0 /\ r.c > 0 /\ r.d > 0
             /\ r.ROR.k = "fin" /\ QGt(r.ROR.q, QOne)

(***************************************************************************)
(* stats.add_stats on the tables of the unit tests                        *)
(* (src/tests/test_prr_math.py), one table per frame.                     *)
(***************************************************************************)
TestTables == {Table(30, 970, 300, 9700), Table(0, 100, 10, 10000),
               Table(5, 95, 50, 0), Table(50, 50, 10, 990)}

InitTests ==
    /\ df \in {InputFrame(<<t>>) : t \in TestTables}
    /\ args \in Thresholds
    /\ pc = "add_stats"
    /\ out = Frame({}, <<>>)
    /\ exc = "none"

SpecTests == InitTests /\ [][Next]_vars

(***************************************************************************)
(* C15.  The table (a=50, b=50, c=10, d=990) has no zero cell and is not  *)
(* corrected: its PRR is that of the raw cells, (50/100)/(10/1000), which *)
(* is at least 2.0, its chi2 exceeds 4.0 and it is flagged under the      *)
(* default thresholds prr_min=2.0, chi2_min=4.0, n_min=3.                 *)
(***************************************************************************)
C15_AssociationFlagged ==
    (pc = "done" /\ args = DefaultThresholds) =>
        \A i \in 1..NRows(out) :
            Cells(df.rows[i]) = Table(50, 50, 10, 990) =>
                LET r == out.rows[i]
                IN /\ r.PRR.k = "fin" /\ r.chi2.k = "fin"
                   /\ QEq(QMul[r.PRR.q, QInt[r.c * (r.a + r.b)]], QInt[r.a * (r.c + r.d)])
                   /\ QGe(r.PRR.q, QInt[2])
                   /\ QGt(r.chi2.q, QInt[4])
                   /\ r.flagged

\* add_stats has returned the row of that table under the defaults
C15_Witness ==
    /\ pc = "done" /\ args = DefaultThresholds
    /\ NRows(out) = 1
    /\ Cells(out.rows[1]) = Table(50, 50, 10, 990)
    /\ out.rows[1].flagged /\ out.rows[1].N = 50
    /\ QEq(out.rows[1].PRR.q, QInt[50])

(***************************************************************************)
(* C16.  The expected counts get_drug_rows compares with EXP_MIN are      *)
(* those of the corrected cells: E_a = (a'+b')(a'+c')/N with              *)
(* N = a'+b'+c'+d', and likewise E_b, E_c, E_d; for a table with a zero   *)
(* cell they are the expected counts of the +0.5 table.  (In the doubled  *)
(* cells: E_a * 2 S = R1 * C1.)                                            *)
(***************************************************************************)
C16_ExpectedOnCorrectedCells ==
    (IsDrugCall /\ pc = "done" /\ "Ea" \in out.cols) =>
        \A i \in 1..NRows(out) :
            LET r == out.rows[i]
                t == Doubled(r)
                S == t.A + t.B + t.C + t.D
            IN /\ QEq(QMul[r.Ea.q, QInt[2 * S]], QInt[(t.A + t.B) * (t.A + t.C)])
               /\ QEq(QMul[r.Eb.q, QInt[2 * S]], QInt[(t.A + t.B) * (t.B + t.D)])
               /\ QEq(QMul[r.Ec.q, QInt[2 * S]], QInt[(t.C + t.D) * (t.A + t.C)])
               /\ QEq(QMul[r.Ed.q, QInt[2 * S]], QInt[(t.C + t.D) * (t.B + t.D)])

(***************************************************************************)
(* fetch_top_signals (src/app.py) on a view of one row, for every table   *)
(* of the model and every threshold triple.                                *)
(***************************************************************************)
InitDashboard ==
    /\ df \in {InputFrame(<<t>>) : t \in Tables}
    /\ args \in [prr_min : PrrMins, chi2_min : Chi2Mins, n_min : NMins, limit : {DefaultLimit}]
    /\ pc = "fetch_top_signals"
    /\ out = Frame({}, <<>>)
    /\ exc = "none"

SpecDashboard == InitDashboard /\ [][FetchTopSignals]_vars

SameFloat(x, y) == x.k = y.k /\ (x.k = "fin" => QEq(x.q, y.q))

(***************************************************************************)
(* C17.  Every statistics call site leaves a table with no zero cell      *)
(* uncorrected: for every table of positive integers and every threshold  *)
(* triple, add_stats of the cohort dashboard (src/app.py) returns the     *)
(* same PRR, ROR, chi2 and flagged as stats.add_stats.                    *)
(***************************************************************************)
C17_DashboardAgreesOnPositiveTables ==
    pc = "top_mask" =>
        \A i \in 1..NRows(out) :
            ~HasZero(out.rows[i]) =>
                LET r == out.rows[i]
                    s == AddStatsFrame(df, args).rows[i]
                IN /\ SameFloat(r.PRR, s.PRR)
                   /\ SameFloat(r.ROR, s.ROR)
                   /\ SameFloat(r.chi2, s.chi2)
                   /\ r.flagged = s.flagged

(***************************************************************************)
(* get_drug_rows on a snapshot of one row, for tables that the query      *)
(* keeps (a + b + c + d >= TABLE_MIN, c + d >= BG_MIN): small drug cells  *)
(* a and b, comparator cells that are zero, small or large.               *)
(***************************************************************************)
VecTables ==
    {Table(a, b, c, d) : a \in 0..MaxCell, b \in 0..MaxCell,
                         c \in {0, MaxCell, TABLE_MIN}, d \in {0, MaxCell, TABLE_MIN}}

InitVectorized ==
    /\ df \in {InputFrame(<<t>>) : t \in VecTables}
    /\ args \in [prr_min : {1}, chi2_min : {1}, n_min : {0, 1}, flagged_only : {FALSE}]
    /\ pc = "get_drug_rows"
    /\ out = Frame({}, <<>>)
    /\ exc = "none"

SpecVectorized == InitVectorized /\ [][GetDrugRows]_vars

(***************************************************************************)
(* C18.  The vectorized computation of get_drug_rows and the per-row      *)
(* functions of stats.py give identical results in exact arithmetic: for  *)
(* every row get_drug_rows computes on, its PRR, ROR (a'd'/(b'c')) and    *)
(* chi2 equal the values prr_ci, ror_ci ((a'/b')/(c'/d')) and             *)
(* chi2_pearson return for the row's cells, and both corrections give the *)
(* same four cells.                                                        *)
(***************************************************************************)
C18_VectorizedAgrees ==
    (pc \in {"guardrails", "rank", "done"} /\ "chi2" \in out.cols) =>
        \A i \in 1..NRows(out) :
            LET r == out.rows[i]
                p == prr_ci(r.a, r.b, r.c, r.d)
                q == ror_ci(r.a, r.b, r.c, r.d)
                h == apply_haldane_if_zero(r.a, r.b, r.c, r.d)
            IN /\ \A k \in 1..4 : QEq(VecCells(r)[k], h[k])
               /\ p.exc = "none" /\ SameFloat(r.PRR, p.val[1])
               /\ q.exc = "none" /\ SameFloat(r.ROR, q.val[1])
               /\ SameFloat(r.chi2, chi2_pearson(r.a, r.b, r.c, r.d))

\* get_drug_rows returned a row with a zero cell whose ROR is not 1, and
\* the per-row ror_ci gives the same value
C18_Witness ==
    /\ pc = "done" /\ NRows(out) = 1
    /\ HasZero(out.rows[1])
    /\ out.rows[1].ROR.k = "fin" /\ ~QEq(out.rows[1].ROR.q, QOne)
    /\ SameFloat(out.rows[1].ROR,
                 ror_ci(out.rows[1].a, out.rows[1].b, out.rows[1].c, out.rows[1].d).val[1])

(***************************************************************************)
(* prr_ror_chi2 of src/minoxidil_analysis.py (lines 57-130).  The cells   *)
(* are Python numbers, so a division by zero raises ZeroDivisionError and *)
(* math.log of a non-positive value raises ValueError.                    *)
(***************************************************************************)
MinoxCols == {"PRR", "PRR_LCL", "PRR_UCL", "ROR", "ROR_LCL", "ROR_UCL", "chi2"}

\* lines 78-82 and 85-89: the dict of an early return, every entry v
MinoxAll(v) == [col \in MinoxCols |-> v]

\* lines 92-93, the four cells as floats
MinoxCells(a, b, c, d) ==
    IF Min4(a, b, c, d) = 0
    THEN <<QAdd[QInt[a], Half], QAdd[QInt[b], Half], QAdd[QInt[c], Half], QAdd[QInt[d], Half]>>
    ELSE <<QInt[a], QInt[b], QInt[c], QInt[d]>>

\* lines 98 and 105: max(var, 0)
QMax0[x \in Rat] == IF x.s < 0 THEN QZero ELSE x

\* lines 96-100 on the cells h
MinoxPrr[h \in Seq(Rat)] ==
    IF QIsZero(QAdd[h[1], h[2]]) \/ QIsZero(QAdd[h[3], h[4]]) \/ QIsZero(h[3]) \/ QIsZero(h[1])
    THEN Raise("ZeroDivisionError")
    ELSE LET prr == QDiv[QDiv[h[1], QAdd[h[1], h[2]]], QDiv[h[3], QAdd[h[3], h[4]]]]
             var == QSub[QAdd[QSub[QDiv[QOne, h[1]], QDiv[QOne, QAdd[h[1], h[2]]]],
                              QDiv[QOne, h[3]]],
                         QDiv[QOne, QAdd[h[3], h[4]]]]
         IN IF prr.s <= 0 THEN Raise("ValueError")
            ELSE Return(<<Fin(prr), Wald(prr, QMax0[var], -1), Wald(prr, QMax0[var], 1)>>)

\* lines 103-107 on the cells h
MinoxRor[h \in Seq(Rat)] ==
    IF QIsZero(h[1]) \/ QIsZero(h[2]) \/ QIsZero(h[3]) \/ QIsZero(h[4])
    THEN Raise("ZeroDivisionError")
    ELSE LET ror == QDiv[QDiv[h[1], h[2]], QDiv[h[3], h[4]]]
             var == QAdd[QAdd[QAdd[QDiv[QOne, h[1]], QDiv[QOne, h[2]]],
                              QDiv[QOne, h[3]]],
                         QDiv[QOne, h[4]]]
         IN IF ror.s <= 0 THEN Raise("ValueError")
            ELSE Return(<<Fin(ror), Wald(ror, QMax0[var], -1), Wald(ror, QMax0[var], 1)>>)

\* lines 110-116: the expected counts of the four cells
MinoxExpected[h \in Seq(Rat)] ==
    LET n    == QAdd[QAdd[QAdd[h[1], h[2]], h[3]], h[4]]
        row1 == QAdd[h[1], h[2]]
        row2 == QAdd[h[3], h[4]]
        col1 == QAdd[h[1], h[3]]
        col2 == QAdd[h[2], h[4]]
    IN <<QDiv[QMul[row1, col1], n], QDiv[QMul[row1, col2], n],
         QDiv[QMul[row2, col1], n], QDiv[QMul[row2, col2], n]>>

\* the continuity correction applied whatever the option says
chi2_cell_yates_always(observed, expected, yates, n) ==
    LET x == QSub[observed, expected]
        y == QSub[IF x.s < 0 THEN QNeg[x] ELSE x, Half]
    IN QDiv[QMul[y, y], expected]

\* the continuity correction without the absolute value
chi2_cell_signed(observed, expected, yates, n) ==
    LET x == QSub[observed, expected]
        y == QSub[x, Half]
    IN IF yates /\ QGt(n, QOne)
       THEN QDiv[QMul[y, y], expected]
       ELSE QDiv[QMul[x, x], expected]

\* lines 118-121: chi2_cell, a closure over yates and n
chi2_cell(observed, expected, yates, n) ==
    LET x == QSub[observed, expected]
        y == QSub[IF x.s < 0 THEN QNeg[x] ELSE x, Half]
    IN IF yates /\ QGt(n, QOne)
       THEN QDiv[QMul[y, y], expected]
       ELSE QDiv[QMul[x, x], expected]

\* lines 110-124: the sum over the four cells
MinoxChi2(h, yates) ==
    LET n == QAdd[QAdd[QAdd[h[1], h[2]], h[3]], h[4]]
    IN IF QIsZero(n) THEN Raise("ZeroDivisionError")
       ELSE LET e == MinoxExpected[h]
            IN IF \E k \in 1..4 : QIsZero(e[k]) THEN Raise("ZeroDivisionError")
               ELSE Return(Fin(QAdd[QAdd[chi2_cell(h[1], e[1], yates, n),
                                         chi2_cell(h[2], e[2], yates, n)],
                                    QAdd[chi2_cell(h[3], e[3], yates, n),
                                         chi2_cell(h[4], e[4], yates, n)]]))

(***************************************************************************)
(* prr_ror_chi2(a, b, c, d, yates) step by step: df holds the table, args *)
(* the option, out the local cells and, at the return, the dict.          *)
(***************************************************************************)
\* tables beyond the small ones that the flag rule of the panel accepts or
\* nearly accepts
PanelTables == {Table(6, 0, 0, 6), Table(12, 8, 5, 25), Table(10, 10, 10, 10),
                Table(8, 2, 20, 70)}

\* lines 41-45
FLAG_RULE == [prr_min |-> 2, chi2_min |-> 4, n_min |-> 3]

\* lines 231-235: PRR >= prr_min and chi2 >= chi2_min and a >= n_min
PanelFlagged(r, stats) ==
    /\ FloatGe(stats.PRR, QInt[FLAG_RULE.prr_min])
    /\ FloatGe(stats.chi2, QInt[FLAG_RULE.chi2_min])
    /\ r.a >= FLAG_RULE.n_min

InitMinox ==
    /\ df \in {InputFrame(<<t>>) : t \in Tables \cup PanelTables}
    /\ args \in [yates : BOOLEAN]
    /\ pc = "prr_ror_chi2"
    /\ out = Frame({}, <<>>)
    /\ exc = "none"

\* the locals of the call: the cells h and the statistics computed so far
MinoxLocals(h, stats) == Frame({"h"} \cup DOMAIN stats, <<[h |-> h] @@ stats>>)

\* lines 74-93: the two guards, then the conditional correction
MinoxGuards ==
    /\ pc = "prr_ror_chi2"
    /\ LET r == df.rows[1]
       IN IF r.a + r.b = 0
          THEN out' = Frame(MinoxCols, <<MinoxAll(NaN)>>) /\ pc' = "done"
          ELSE IF r.a + r.c = 0
          THEN out' = Frame(MinoxCols, <<MinoxAll(Fin(QZero))>>) /\ pc' = "done"
          ELSE out' = MinoxLocals(MinoxCells(r.a, r.b, r.c, r.d), <<>>) /\ pc' = "mx_PRR"
    /\ UNCHANGED <<df, args, exc>>

\* lines 96-100
MinoxStepPrr ==
    /\ pc = "mx_PRR"
    /\ LET v == MinoxPrr[out.rows[1].h]
       IN IF v.exc = "none"
          THEN /\ out' = MinoxLocals(out.rows[1].h,
                             [PRR |-> v.val[1], PRR_LCL |-> v.val[2], PRR_UCL |-> v.val[3]])
               /\ pc' = "mx_ROR" /\ exc' = exc
          ELSE out' = out /\ pc' = "raised" /\ exc' = v.exc
    /\ UNCHANGED <<df, args>>

\* lines 103-107
MinoxStepRor ==
    /\ pc = "mx_ROR"
    /\ LET v == MinoxRor[out.rows[1].h]
           s == out.rows[1]
       IN IF v.exc = "none"
          THEN /\ out' = MinoxLocals(s.h,
                             [PRR |-> s.PRR, PRR_LCL |-> s.PRR_LCL, PRR_UCL |-> s.PRR_UCL,
                              ROR |-> v.val[1], ROR_LCL |-> v.val[2], ROR_UCL |-> v.val[3]])
               /\ pc' = "mx_chi2" /\ exc' = exc
          ELSE out' = out /\ pc' = "raised" /\ exc' = v.exc
    /\ UNCHANGED <<df, args>>

\* lines 110-130: chi2 and the returned dict
MinoxStepChi2 ==
    /\ pc = "mx_chi2"
    /\ LET v == MinoxChi2(out.rows[1].h, args.yates)
           s == out.rows[1]
       IN IF v.exc = "none"
          THEN /\ out' = Frame(MinoxCols, <<[col \in MinoxCols |->
                                               IF col = "chi2" THEN v.val ELSE s[col]]>>)
               /\ pc' = "done" /\ exc' = exc
          ELSE out' = out /\ pc' = "raised" /\ exc' = v.exc
    /\ UNCHANGED <<df, args>>

PrrRorChi2 ==
    \/ MinoxGuards
    \/ MinoxStepPrr
    \/ MinoxStepRor
    \/ MinoxStepChi2

\* lines 218-235 of run_analysis_panel: the call with the default yates=True
\* has returned, the flag is added to the row of the panel
PanelFlag ==
    /\ pc = "done" /\ args.yates
    /\ out' = WithColumn(out, "flag", <<PanelFlagged(df.rows[1], out.rows[1])>>)
    /\ pc' = "panel"
    /\ UNCHANGED <<df, args, exc>>

RunAnalysisPanel == PrrRorChi2 \/ PanelFlag

SpecMinox == InitMinox /\ [][RunAnalysisPanel]_vars

(***************************************************************************)
(* C19.  With yates=False prr_ror_chi2 computes the canonical Pearson     *)
(* statistic: for every table of non-negative integers with a + b > 0 and *)
(* a + c > 0 the sum over the four cells of (O - E)^2 / E equals          *)
(* (a'd' - b'c')^2 N / ((a'+b')(c'+d')(a'+c')(b'+d')), the value          *)
(* stats.chi2_pearson returns.                                             *)
(***************************************************************************)
C19_MinoxPearsonWithoutYates ==
    (pc = "done" /\ ~args.yates) =>
        LET r == df.rows[1]
            t == Doubled(r)
            X == t.A * t.D - t.B * t.C
        IN (r.a + r.b > 0 /\ r.a + r.c > 0) =>
              /\ SameFloat(out.rows[1].chi2, chi2_pearson(r.a, r.b, r.c, r.d))
              /\ out.rows[1].chi2.k = "fin"
              /\ QEq(QMul[out.rows[1].chi2.q,
                          QInt[2 * (t.A + t.B) * (t.C + t.D) * (t.A + t.C) * (t.B + t.D)]],
                     QInt[X * X * (t.A + t.B + t.C + t.D)])

\* the call returned, without Yates, a chi2 above 1 for a table with a zero
\* cell
C19_Witness ==
    /\ pc = "done" /\ ~args.yates
    /\ df.rows[1].a > 0
    /\ out.rows[1].chi2.k = "fin" /\ QGt(out.rows[1].chi2.q, QOne)
    /\ HasZero(df.rows[1])

(***************************************************************************)
(* C20.  For every table of non-negative integers chi2_pearson returns    *)
(* 0.0 exactly when a'd' = b'c' on the corrected cells, and it returns    *)
(* through neither guard, n == 0 or den == 0: every corrected cell is at  *)
(* least 0.5, so every row and column marginal is at least 1.             *)
(***************************************************************************)
C20_Chi2ZeroIffNoAssociation ==
    pc = "done" =>
        \A i \in 1..NRows(out) :
            LET r == df.rows[i]
                t == Doubled(r)
                h == apply_haldane_if_zero(r.a, r.b, r.c, r.d)
            IN /\ IsNought(out.rows[i].chi2) <=> t.A * t.D = t.B * t.C
               /\ Chi2Branch[h] = "num / den"
               /\ \A k \in 1..4 : QGe(h[k], Half)
               /\ QGe(QAdd[h[1], h[2]], QOne) /\ QGe(QAdd[h[3], h[4]], QOne)
               /\ QGe(QAdd[h[1], h[3]], QOne) /\ QGe(QAdd[h[2], h[4]], QOne)

\* a raw marginal is zero (c + d = 0) and chi2 is not: the statistic is the
\* quotient on the corrected cells
C20_Witness ==
    /\ pc = "done"
    /\ \E i \in 1..NRows(out) :
          /\ out.rows[i].c + out.rows[i].d = 0
          /\ out.rows[i].chi2.k = "fin" /\ ~IsNought(out.rows[i].chi2)

(***************************************************************************)
(* counts_for_drug_pt of src/minoxidil_analysis.py (lines 160-197).  df   *)
(* is the events table, one row per (caseid, ingredient_std, reaction_pt); *)
(* restrict_caseids is None or a set of case ids.                          *)
(***************************************************************************)
MaxCases == 2

MaxEvents == 2

CaseIds == 1..MaxCases

\* src/minoxidil_analysis.py:33-34
Ingredients == {"MINOXIDIL", "HYDRALAZINE"}

\* src/minoxidil_analysis.py:37-38
PreferredTerms == {"PERICARDIAL EFFUSION", "PERICARDITIS"}

EventsCols == {"caseid", "ingredient_std", "reaction_pt"}

EventRows == [caseid : CaseIds, ingredient_std : Ingredients, reaction_pt : PreferredTerms]

None == [is_none |-> TRUE]

Some(s) == [is_none |-> FALSE, set |-> s]

\* set(events_df.loc[events_df[col] == v, "caseid"].unique())
CasesWhere(f, col, v) == {f.rows[i].caseid : i \in {j \in 1..NRows(f) : f.rows[j][col] = v}}

\* set(events_df["caseid"].unique())
AllCases(f) == {f.rows[i].caseid : i \in 1..NRows(f)}

\* lines 183-184 and 188-189: s & restrict_caseids when a restriction is given
Restricted(s, restrict_caseids) ==
    IF restrict_caseids.is_none THEN s ELSE s \cap restrict_caseids.set

\* lines 192-195
CountsTable(cases_with_drug, cases_with_event, all_cases) ==
    Table(Cardinality(cases_with_drug \cap cases_with_event),
          Cardinality(cases_with_drug \ cases_with_event),
          Cardinality(cases_with_event \ cases_with_drug),
          Cardinality(all_cases \ (cases_with_drug \cup cases_with_event)))

InitCounts ==
    /\ df \in {Frame(EventsCols, rows) : rows \in SeqsUpTo(EventRows, MaxEvents)}
    /\ args \in [drug_ingredient : {"MINOXIDIL"}, preferred_term : PreferredTerms,
                 restrict_caseids : {None} \cup {Some(s) : s \in SUBSET CaseIds}]
    /\ pc = "counts_for_drug_pt"
    /\ out = [cases_with_drug |-> {}, cases_with_event |-> {}, all_cases |-> {}]
    /\ exc = "none"

\* lines 174-176
CountsDrug ==
    /\ pc = "counts_for_drug_pt"
    /\ out' = [out EXCEPT !.cases_with_drug = CasesWhere(df, "ingredient_std", args.drug_ingredient)]
    /\ pc' = "cases_with_event"
    /\ UNCHANGED <<df, args, exc>>

\* lines 178-180
CountsEvent ==
    /\ pc = "cases_with_event"
    /\ out' = [out EXCEPT !.cases_with_event = CasesWhere(df, "reaction_pt", args.preferred_term)]
    /\ pc' = "restrict"
    /\ UNCHANGED <<df, args, exc>>

\* lines 183-184
CountsRestrict ==
    /\ pc = "restrict"
    /\ out' = [out EXCEPT !.cases_with_drug = Restricted(out.cases_with_drug, args.restrict_caseids)]
    /\ pc' = "all_cases"
    /\ UNCHANGED <<df, args, exc>>

\* lines 187-189
CountsUniverse ==
    /\ pc = "all_cases"
    /\ out' = [out EXCEPT !.all_cases = Restricted(AllCases(df), args.restrict_caseids)]
    /\ pc' = "table"
    /\ UNCHANGED <<df, args, exc>>

\* lines 192-197
CountsReturn ==
    /\ pc = "table"
    /\ out' = Frame({"a", "b", "c", "d"},
                    <<CountsTable(out.cases_with_drug, out.cases_with_event, out.all_cases)>>)
    /\ pc' = "done"
    /\ UNCHANGED <<df, args, exc>>

CountsForDrugPt ==
    \/ CountsDrug
    \/ CountsEvent
    \/ CountsRestrict
    \/ CountsUniverse
    \/ CountsReturn

SpecCounts == InitCounts /\ [][CountsForDrugPt]_vars

\* the case universe of the computation: all cases, or all cases that are in
\* restrict_caseids
Universe == Restricted(AllCases(df), args.restrict_caseids)

(***************************************************************************)
(* C21.  counts_for_drug_pt returns a partition of the case universe of   *)
(* its computation: a, b, c, d are non-negative and a + b + c + d is the  *)
(* number of cases in the universe, with or without a restriction.        *)
(***************************************************************************)
C21_CountsPartitionUniverse ==
    pc = "done" =>
        LET r == out.rows[1]
        IN /\ r.a >= 0 /\ r.b >= 0 /\ r.c >= 0 /\ r.d >= 0
           /\ r.a + r.b + r.c + r.d = Cardinality(Universe)

(***************************************************************************)
(* create_2x2_view of src/pipeline/01_create_views.py (lines 122-162; the  *)
(* same SQL is in src/scripts/02_create_views.py and in                   *)
(* src/fix_analysis/rebuild_2x2_full_background.py): the view             *)
(* v_signal_2x2_2023 over the rows (primaryid, cohort, reaction_pt) of    *)
(* v_events_2023_cohorts, one common table expression per step.           *)
(***************************************************************************)
MaxViewRows == 3

Cohorts == {"MINOXIDIL_SYSTEMIC", "OTHER"}

CohortsCols == {"primaryid", "cohort", "reaction_pt"}

CohortRows == [primaryid : CaseIds, cohort : Cohorts, reaction_pt : PreferredTerms]

\* COUNT(DISTINCT primaryid) over the rows of f with an index in idx
CountDistinct(f, idx) == Cardinality({f.rows[i].primaryid : i \in idx})

\* lines 129-133: GROUP BY cohort, reaction_pt
cohort_reaction_counts(f) ==
    {[cohort |-> k[1], reaction_pt |-> k[2],
      a |-> CountDistinct(f, {i \in 1..NRows(f) :
                                 f.rows[i].cohort = k[1] /\ f.rows[i].reaction_pt = k[2]})] :
        k \in {<<f.rows[i].cohort, f.rows[i].reaction_pt>> : i \in 1..NRows(f)}}

\* lines 134-138: GROUP BY cohort
cohort_totals(f) ==
    {[cohort |-> k,
      total_cohort |-> CountDistinct(f, {i \in 1..NRows(f) : f.rows[i].cohort = k})] :
        k \in {f.rows[i].cohort : i \in 1..NRows(f)}}

\* lines 139-143: GROUP BY reaction_pt
reaction_totals(f) ==
    {[reaction_pt |-> k,
      total_with_event |-> CountDistinct(f, {i \in 1..NRows(f) : f.rows[i].reaction_pt = k})] :
        k \in {f.rows[i].reaction_pt : i \in 1..NRows(f)}}

\* lines 144-147: one row, also over no rows
grand(f) == {[grand_total |-> CountDistinct(f, 1..NRows(f))]}

\* the select with d taken as what is left of the grand total after the
\* cohort and the reaction totals, the overlap a subtracted twice
Signal2x2NoOverlap(crc, ct, rt, g) ==
    {[cohort |-> x.cohort, reaction_pt |-> x.reaction_pt,
      a |-> x.a,
      b |-> t.total_cohort - x.a,
      c |-> e.total_with_event - x.a,
      d |-> (n.grand_total - t.total_cohort) - e.total_with_event] :
        <<x, t, e, n>> \in {q \in crc \X ct \X rt \X g :
                               /\ q[2].cohort = q[1].cohort
                               /\ q[3].reaction_pt = q[1].reaction_pt}}

\* lines 148-158: the two joins and the cross join
Signal2x2(crc, ct, rt, g) ==
    {[cohort |-> x.cohort, reaction_pt |-> x.reaction_pt,
      a |-> x.a,
      b |-> t.total_cohort - x.a,
      c |-> e.total_with_event - x.a,
      d |-> (n.grand_total - t.total_cohort) - (e.total_with_event - x.a)] :
        <<x, t, e, n>> \in {q \in crc \X ct \X rt \X g :
                               /\ q[2].cohort = q[1].cohort
                               /\ q[3].reaction_pt = q[1].reaction_pt}}

InitView ==
    /\ df \in {Frame(CohortsCols, rows) : rows \in SeqsUpTo(CohortRows, MaxViewRows)}
    /\ args = [view |-> "v_signal_2x2_2023"]
    /\ pc = "create_2x2_view"
    /\ out = [crc |-> {}, ct |-> {}, rt |-> {}, g |-> {}, view |-> {}]
    /\ exc = "none"

ViewCohortReactionCounts ==
    /\ pc = "create_2x2_view"
    /\ out' = [out EXCEPT !.crc = cohort_reaction_counts(df)]
    /\ pc' = "cohort_totals"
    /\ UNCHANGED <<df, args, exc>>

ViewCohortTotals ==
    /\ pc = "cohort_totals"
    /\ out' = [out EXCEPT !.ct = cohort_totals(df)]
    /\ pc' = "reaction_totals"
    /\ UNCHANGED <<df, args, exc>>

ViewReactionTotals ==
    /\ pc = "reaction_totals"
    /\ out' = [out EXCEPT !.rt = reaction_totals(df)]
    /\ pc' = "grand"
    /\ UNCHANGED <<df, args, exc>>

ViewGrand ==
    /\ pc = "grand"
    /\ out' = [out EXCEPT !.g = grand(df)]
    /\ pc' = "select"
    /\ UNCHANGED <<df, args, exc>>

ViewSelect ==
    /\ pc = "select"
    /\ out' = [out EXCEPT !.view = Signal2x2(out.crc, out.ct, out.rt, out.g)]
    /\ pc' = "done"
    /\ UNCHANGED <<df, args, exc>>

Create2x2View ==
    \/ ViewCohortReactionCounts
    \/ ViewCohortTotals
    \/ ViewReactionTotals
    \/ ViewGrand
    \/ ViewSelect

SpecView == InitView /\ [][Create2x2View]_vars

\* the number of distinct primaryid of the event rows
GrandTotal == Cardinality({df.rows[i].primaryid : i \in 1..NRows(df)})

\* the event rows are, for every primaryid, each of its cohorts with each of
\* its reactions: what the joins of the drug rows and the reaction rows on
\* primaryid produce (create_faers_events_2023_unique, lines 29-43)
JoinShaped ==
    \A i, j \in 1..NRows(df) :
        df.rows[i].primaryid = df.rows[j].primaryid =>
            \E k \in 1..NRows(df) :
                df.rows[k] = [primaryid |-> df.rows[i].primaryid,
                              cohort |-> df.rows[i].cohort,
                              reaction_pt |-> df.rows[j].reaction_pt]

\* a >= 1, b, c, d >= 0 and the four cells sum to the grand total
IsCaseTable(r) ==
    /\ r.a >= 1 /\ r.b >= 0 /\ r.c >= 0 /\ r.d >= 0
    /\ r.a + r.b + r.c + r.d = GrandTotal

FlaggedOnly == IF IsDrugCall THEN args.flagged_only ELSE TRUE

\* the statistical part of the flag of the call, recomputed from the raw cells
RuleFlags(r) ==
    IF IsDrugCall
    THEN BaseRule(r) /\ ExpectedAtLeast(r) /\ WaldGtOne(LclOf(r))
    ELSE BaseRule(r)

(***************************************************************************)
(* C23.  A ranked query that filters to flagged-only (fetch_top_signals;  *)
(* get_drug_rows with flagged_only=True) returns only rows whose flagged  *)
(* is true, and a row of the source that the flag rule accepts is absent  *)
(* from the result only because the result is full and no returned row    *)
(* ranks below it, or, in get_drug_rows, because the row failed the       *)
(* prefilter on a + b + c + d, c + d and a.                               *)
(***************************************************************************)
C23_FlaggedOnlyExact ==
    pc = "done" /\ FlaggedOnly =>
        /\ \A i \in 1..NRows(out) : out.rows[i].flagged /\ RuleFlags(out.rows[i])
        /\ \A i \in 1..NRows(df) :
              RuleFlags(df.rows[i]) /\ df.rows[i].pt \notin KeptPts =>
                  \/ IsDrugCall /\ ~Prefilter(df.rows[i])
                  \/ /\ NRows(out) = RankLimit
                     /\ \A j \in 1..NRows(out) : ~RanksAbove(df.rows[i], out.rows[j])

\* get_drug_rows with flagged_only=True returns a flagged row and leaves
\* out a row the rule accepts whose table is below the prefilter
C23_Witness ==
    /\ pc = "done" /\ IsDrugCall /\ args.flagged_only
    /\ NRows(out) > 0 /\ out.rows[1].flagged
    /\ \E i \in 1..NRows(df) :
          /\ RuleFlags(df.rows[i]) /\ ~Prefilter(df.rows[i])
          /\ df.rows[i].pt \notin KeptPts

\* the continuity correction applied to the zero cells only
MethodCellsZeroOnly(a, b, c, d, continuity) ==
    IF continuity
    THEN <<IF a = 0 THEN Half ELSE QInt[a], IF b = 0 THEN Half ELSE QInt[b],
           IF c = 0 THEN Half ELSE QInt[c], IF d = 0 THEN Half ELSE QInt[d]>>
    ELSE <<QInt[a], QInt[b], QInt[c], QInt[d]>>

(***************************************************************************)
(* The method-control helper of src/tests/test_methods.py: prr_stats      *)
(* (lines 58-78) and the signal decision of run_check (lines 80-100).     *)
(* Every guarded expression records whether its fallback 0.0 was taken.   *)
(***************************************************************************)
\* lines 59-61
MethodCells(a, b, c, d, continuity) ==
    IF continuity /\ Min4(a, b, c, d) = 0
    THEN <<QAdd[QInt[a], Half], QAdd[QInt[b], Half], QAdd[QInt[c], Half], QAdd[QInt[d], Half]>>
    ELSE <<QInt[a], QInt[b], QInt[c], QInt[d]>>

\* lines 63-65: num, den and prr, and the fallbacks taken
MethodPrr[h \in Seq(Rat)] ==
    LET r1  == QAdd[h[1], h[2]]
        r2  == QAdd[h[3], h[4]]
        num == IF r1.s > 0 THEN QDiv[h[1], r1] ELSE QZero
        den == IF r2.s > 0 THEN QDiv[h[3], r2] ELSE QZero
    IN [prr |-> IF den.s > 0 THEN QDiv[num, den] ELSE QZero,
        fallbacks |-> (IF r1.s > 0 THEN {} ELSE {"num"})
                      \cup (IF r2.s > 0 THEN {} ELSE {"den"})
                      \cup (IF den.s > 0 THEN {} ELSE {"prr"})]

\* lines 67-72: the interval, or lcl, ucl = 0.0, 0.0
MethodCi[h \in Seq(Rat)] ==
    LET prr == MethodPrr[h].prr
    IN IF prr.s > 0 /\ QAdd[h[1], h[2]].s > 0 /\ QAdd[h[3], h[4]].s > 0
       THEN LET rad == QSub[QAdd[QSub[QDiv[QOne, h[1]], QDiv[QOne, QAdd[h[1], h[2]]]],
                                 QDiv[QOne, h[3]]],
                            QDiv[QOne, QAdd[h[3], h[4]]]]
            IN IF rad.s < 0 THEN Raise("ValueError")
               ELSE [exc |-> "none", lcl |-> Wald(prr, rad, -1), ucl |-> Wald(prr, rad, 1),
                     fallbacks |-> {}]
       ELSE [exc |-> "none", lcl |-> Fin(QZero), ucl |-> Fin(QZero), fallbacks |-> {"lcl, ucl"}]

\* lines 74-76
MethodChi2[h \in Seq(Rat)] ==
    LET x         == QSub[QMul[h[1], h[4]], QMul[h[2], h[3]]]
        numerator == QMul[QMul[x, x], QAdd[QAdd[QAdd[h[1], h[2]], h[3]], h[4]]]
        denom     == QMul[QMul[QMul[QAdd[h[1], h[2]], QAdd[h[3], h[4]]], QAdd[h[1], h[3]]],
                          QAdd[h[2], h[4]]]
    IN [chi2 |-> IF denom.s > 0 THEN QDiv[numerator, denom] ELSE QZero,
        fallbacks |-> IF denom.s > 0 THEN {} ELSE {"chi2"}]

\* lines 84-89: (a >= n_min) and (prr >= prr_min) and (chi2 >= chi2_min)
MethodSignal(r, th) ==
    /\ r.a >= th.n_min
    /\ QGe(r.PRR.q, QInt[th.prr_min])
    /\ QGe(r.chi2.q, QInt[th.chi2_min])

MethodArgs == [prr_min : PrrMins, chi2_min : Chi2Mins, n_min : NMins, continuity : BOOLEAN]

InitMethods ==
    /\ df \in {InputFrame(<<t>>) : t \in Tables}
    /\ args \in MethodArgs
    /\ pc = "prr_stats"
    /\ out = Frame({}, <<>>)
    /\ exc = "none"

MethodLocals == MethodCells(df.rows[1].a, df.rows[1].b, df.rows[1].c, df.rows[1].d,
                            args.continuity)

\* lines 59-65
MethodStepPrr ==
    /\ pc = "prr_stats"
    /\ out' = WithColumn(WithColumn(df, "PRR", <<Fin(MethodPrr[MethodLocals].prr)>>),
                         "fallbacks", <<MethodPrr[MethodLocals].fallbacks>>)
    /\ pc' = "se"
    /\ UNCHANGED <<df, args, exc>>

\* lines 67-72
MethodStepCi ==
    /\ pc = "se"
    /\ LET v == MethodCi[MethodLocals]
       IN IF v.exc = "none"
          THEN /\ out' = WithColumn(WithColumn(WithColumn(out, "PRR_LCL", <<v.lcl>>),
                                               "PRR_UCL", <<v.ucl>>),
                                    "fallbacks", <<out.rows[1].fallbacks \cup v.fallbacks>>)
               /\ pc' = "numerator"
               /\ exc' = exc
          ELSE out' = out /\ pc' = "raised" /\ exc' = v.exc
    /\ UNCHANGED <<df, args>>

\* lines 74-78
MethodStepChi2 ==
    /\ pc = "numerator"
    /\ LET v == MethodChi2[MethodLocals]
       IN out' = WithColumn(WithColumn(out, "chi2", <<Fin(v.chi2)>>),
                            "fallbacks", <<out.rows[1].fallbacks \cup v.fallbacks>>)
    /\ pc' = "run_check"
    /\ UNCHANGED <<df, args, exc>>

\* lines 81-89: the decision on the returned statistics
MethodStepSignal ==
    /\ pc = "run_check"
    /\ out' = WithColumn(out, "signal", <<MethodSignal(out.rows[1], args)>>)
    /\ pc' = "done"
    /\ UNCHANGED <<df, args, exc>>

RunCheck ==
    \/ MethodStepPrr
    \/ MethodStepCi
    \/ MethodStepChi2
    \/ MethodStepSignal

SpecMethods == InitMethods /\ [][RunCheck]_vars

\* two confidence limits are the same value: the same point estimate and
\* the same radicand on the same side
SameLimit(x, y) ==
    /\ x.k = y.k
    /\ x.k = "fin" => QEq(x.q, y.q)
    /\ x.k = "wald" => QEq(x.x, y.x) /\ QEq(x.r, y.r) /\ x.sg = y.sg

(***************************************************************************)
(* C24.  prr_stats(a, b, c, d, continuity=True) agrees with the canonical *)
(* engine on every table of non-negative integers: its PRR, PRR_LCL,      *)
(* PRR_UCL and chi2 are those of stats.prr_ci and stats.chi2_pearson, the *)
(* signal decision of run_check is the flag of stats.add_stats, and none  *)
(* of its fallback branches that return 0.0 is taken.                     *)
(***************************************************************************)
C24_MethodControlAgrees ==
    pc = "done" /\ args.continuity =>
        LET r == out.rows[1]
            p == prr_ci(r.a, r.b, r.c, r.d)
            s == AddStatsFrame(df, args).rows[1]
        IN /\ p.exc = "none"
           /\ SameFloat(r.PRR, p.val[1])
           /\ SameLimit(r.PRR_LCL, p.val[2])
           /\ SameLimit(r.PRR_UCL, p.val[3])
           /\ SameFloat(r.chi2, chi2_pearson(r.a, r.b, r.c, r.d))
           /\ r.signal = s.flagged
           /\ r.fallbacks = {}

\* the helper corrected a table whose cells b and c are zero, and its
\* decision is a signal that add_stats flags too
C24_Witness ==
    /\ pc = "done" /\ args.continuity
    /\ df.rows[1].b = 0 /\ df.rows[1].c = 0
    /\ out.rows[1].signal
    /\ AddStatsFrame(df, args).rows[1].flagged

\* the interval is strict: the radicand r of the limits is positive, so that
\* exp(ln(x) - 1.96 sqrt(r)) < x < exp(ln(x) + 1.96 sqrt(r))
StrictBrackets(lcl, est, ucl) ==
    /\ est.k = "fin" /\ lcl.k = "wald" /\ ucl.k = "wald"
    /\ QEq(lcl.x, est.q) /\ lcl.sg < 0 /\ lcl.x.s > 0 /\ lcl.r.s > 0
    /\ QEq(ucl.x, est.q) /\ ucl.sg > 0 /\ ucl.x.s > 0 /\ ucl.r.s > 0

(***************************************************************************)
(* C25.  For every table of non-negative integers the radicand of the PRR *)
(* standard error, 1/a' - 1/(a'+b') + 1/c' - 1/(c'+d'), equals            *)
(* b'/(a'(a'+b')) + d'/(c'(c'+d')) and is strictly positive, and so is    *)
(* the ROR radicand 1/a' + 1/b' + 1/c' + 1/d'; the square roots are       *)
(* defined and PRR_LCL < PRR < PRR_UCL and ROR_LCL < ROR < ROR_UCL.       *)
(***************************************************************************)
C25_RadicandsPositive ==
    pc = "done" =>
        \A i \in 1..NRows(out) :
            LET r == out.rows[i]
                t == Doubled(df.rows[i])
            IN /\ StrictBrackets(r.PRR_LCL, r.PRR, r.PRR_UCL)
               /\ StrictBrackets(r.ROR_LCL, r.ROR, r.ROR_UCL)
               /\ QEq(r.PRR_LCL.r, QAdd[QFrac[2 * t.B, t.A * (t.A + t.B)],
                                        QFrac[2 * t.D, t.C * (t.C + t.D)]])
               /\ QEq(r.PRR_UCL.r, r.PRR_LCL.r)
               /\ QEq(r.ROR_LCL.r, QAdd[QAdd[QFrac[2, t.A], QFrac[2, t.B]],
                                        QAdd[QFrac[2, t.C], QFrac[2, t.D]]])
               /\ QEq(r.ROR_UCL.r, r.ROR_LCL.r)

\* a table with b = 0 and d = 0: both proportions would be 1 and the PRR
\* radicand 0 on the raw cells; on the corrected cells it is positive
C25_Witness ==
    /\ pc = "done"
    /\ \E i \in 1..NRows(out) :
          /\ out.rows[i].b = 0 /\ out.rows[i].d = 0
          /\ out.rows[i].a > 0 /\ out.rows[i].c > 0
          /\ out.rows[i].PRR_LCL.r.s > 0

\* a + b > 0 and a + c > 0: the call computes the statistics
MinoxComputes(r) == r.a + r.b > 0 /\ r.a + r.c > 0

(***************************************************************************)
(* C26 as stated.  With yates=True the chi2 of prr_ror_chi2 is at most    *)
(* stats.chi2_pearson of the same table, for every table of non-negative  *)
(* integers with a + b > 0 and a + c > 0.                                  *)
(***************************************************************************)
C26_YatesNeverAbovePearson ==
    pc = "panel" /\ MinoxComputes(df.rows[1]) =>
        LET r == df.rows[1]
        IN QLe(out.rows[1].chi2.q, chi2_pearson(r.a, r.b, r.c, r.d).q)

(***************************************************************************)
(* C26, amended.  With yates=True the chi2 of prr_ror_chi2 is at most     *)
(* stats.chi2_pearson exactly when the observed cells are at least 0.25   *)
(* away from the expected ones, |a'd' - b'c'| / n' >= 1/4, and above it   *)
(* otherwise; under FLAG_RULE (PRR >= 2, chi2 >= 4, a >= 3) a pair        *)
(* flagged by run_analysis_panel is all the same flagged by               *)
(* stats.add_stats with the same thresholds.                              *)
(***************************************************************************)
C26_YatesConservativeAwayFromIndependence ==
    pc = "panel" /\ MinoxComputes(df.rows[1]) =>
        LET r == df.rows[1]
            t == Doubled(r)
            X == t.A * t.D - t.B * t.C
        IN /\ out.rows[1].chi2.k = "fin"
           /\ QLe(out.rows[1].chi2.q, chi2_pearson(r.a, r.b, r.c, r.d).q)
                 <=> 2 * (IF X < 0 THEN -X ELSE X) >= t.A + t.B + t.C + t.D
           /\ out.rows[1].flag => AddStatsFrame(df, FLAG_RULE).rows[1].flagged

\* the panel flags a table with a zero cell, on a Yates chi2 that is below
\* the Pearson chi2
C26_Witness ==
    /\ pc = "panel" /\ MinoxComputes(df.rows[1])
    /\ out.rows[1].flag
    /\ HasZero(df.rows[1])
    /\ QLt(out.rows[1].chi2.q,
           chi2_pearson(df.rows[1].a, df.rows[1].b, df.rows[1].c, df.rows[1].d).q)

(***************************************************************************)
(* stats.add_stats on tables whose comparator cells c and d stand on both *)
(* sides of the two diagnostics (c < 3, d < 3, c + d < 50), one table per *)
(* frame.                                                                  *)
(***************************************************************************)
StabilityTables == {Table(a, b, c, d) : a \in {0, 3, 40}, b \in {0, 3, 40},
                                        c \in {0, 2, 3, 47}, d \in {0, 2, 3, 47}}

InitStability ==
    /\ df \in {InputFrame(<<t>>) : t \in StabilityTables}
    /\ args \in Thresholds
    /\ pc = "add_stats"
    /\ out = Frame({}, <<>>)
    /\ exc = "none"

SpecStability == InitStability /\ [][Next]_vars

(***************************************************************************)
(* C27.  In stats.add_stats unstable_den is true exactly when the raw c   *)
(* is below 3 or the raw d is below 3, and sparse_bg exactly when the raw *)
(* c + d is below 50; so every table whose cell c or d is zero is marked  *)
(* unstable_den; and flagged is the base rule on PRR, chi2 and N whatever *)
(* the two diagnostics say.                                                *)
(***************************************************************************)
C27_DiagnosticsOnRawCells ==
    pc = "done" =>
        \A i \in 1..NRows(out) :
            LET r == out.rows[i]
                t == df.rows[i]
            IN /\ r.unstable_den <=> (t.c < 3 \/ t.d < 3)
               /\ r.sparse_bg <=> (t.c + t.d < 50)
               /\ (t.c = 0 \/ t.d = 0) => r.unstable_den
               /\ r.flagged <=> /\ FGe(r.PRR, QInt[args.prr_min])
                                /\ FGe(r.chi2, QInt[args.chi2_min])
                                /\ r.N >= args.n_min

\* a row returned flagged under the default thresholds although both
\* diagnostics are set: its cell c is zero
C27_Witness ==
    /\ pc = "done"
    /\ args = DefaultThresholds
    /\ df.rows[1].c = 0
    /\ out.rows[1].flagged /\ out.rows[1].unstable_den /\ out.rows[1].sparse_bg

(***************************************************************************)
(* C28.  stats.add_stats returns exactly one output row per input row, in *)
(* the input order and with the input's labels unchanged, in a frame      *)
(* whose columns are the input's and the eleven added ones; on an empty   *)
(* input it raises nothing and returns an empty frame with those columns. *)
(***************************************************************************)
C28_OneRowPerInputRow ==
    /\ pc = "done" =>
          /\ NRows(out) = NRows(df)
          /\ \A i \in 1..NRows(out) :
                /\ out.rows[i].pt = df.rows[i].pt
                /\ DOMAIN out.rows[i] = out.cols
          /\ out.cols = df.cols \cup StatsCols
          /\ Cardinality(StatsCols) = 11
          /\ StatsCols \cap df.cols = {}
    /\ NRows(df) = 0 => pc \in {"add_stats", "done"} /\ exc = "none"

\* a frame of two rows returned in the input order, the flagged row second
C28_Witness ==
    /\ pc = "done" /\ NRows(out) = 2
    /\ out.rows[1].pt = 1 /\ out.rows[2].pt = 2
    /\ ~out.rows[1].flagged /\ out.rows[2].flagged
    /\ Cells(df.rows[1]) # Cells(df.rows[2])

(***************************************************************************)
(* The two flags under every threshold triple: stats.add_stats            *)
(* (src/src/stats.py:54-80) on the tables of the diagnostics and          *)
(* get_drug_rows (src/app/app.py:105-180) on one-row snapshots.           *)
(***************************************************************************)
DrugThresholds == [prr_min : {1, 2, 6}, chi2_min : {1, 4}, n_min : {1, 6, 20}]

InitThresholds ==
    /\ \/ /\ pc = "add_stats"
          /\ df \in {InputFrame(<<t>>) : t \in StabilityTables}
          /\ args \in Thresholds
       \/ /\ pc = "get_drug_rows"
          /\ df \in {InputFrame(<<t>>) : t \in DrugTables}
          /\ args \in {[flagged_only |-> f] @@ th : th \in DrugThresholds, f \in BOOLEAN}
    /\ out = Frame({}, <<>>)
    /\ exc = "none"

NextThresholds == AddStats \/ GetDrugRows

SpecThresholds == InitThresholds /\ [][NextThresholds]_vars

\* th is component-wise greater than or equal to the thresholds of the call
AtLeastArgs(th) ==
    th.prr_min >= args.prr_min /\ th.chi2_min >= args.chi2_min /\ th.n_min >= args.n_min

(***************************************************************************)
(* C29.  The flag is monotone in the thresholds: a table that             *)
(* stats.add_stats does not flag under (prr_min, chi2_min, n_min) is not  *)
(* flagged under any thresholds component-wise greater or equal; and the  *)
(* same for the guardrail flag of get_drug_rows, where a greater n_min    *)
(* also keeps no row out of the query that the smaller left out.          *)
(***************************************************************************)
C29_FlagMonotone ==
    /\ pc = "done" /\ ~IsDrugCall =>
          \A th \in Thresholds :
              AtLeastArgs(th) =>
                  \A i \in 1..NRows(out) :
                      ~out.rows[i].flagged =>
                          ~StatsFlagged(out, th.prr_min, th.chi2_min, th.n_min).rows[i].flagged
    /\ pc = "rank" /\ IsDrugCall =>
          \A th \in DrugThresholds :
              AtLeastArgs(th) =>
                  \A i \in 1..NRows(out) :
                      ~out.rows[i].flagged =>
                          ~DrugFlagged(out, th.prr_min, th.chi2_min, th.n_min).rows[i].flagged
    /\ pc = "done" /\ IsDrugCall /\ "flagged" \notin out.cols =>
          \A th \in DrugThresholds :
              AtLeastArgs(th) => NRows(DrugQuery(df, th.n_min)) = 0

\* a table that add_stats does not flag under the thresholds of the call
\* and does flag once the three thresholds are lowered
C29_Witness ==
    /\ pc = "done" /\ ~IsDrugCall
    /\ ~out.rows[1].flagged
    /\ \E th \in Thresholds :
          /\ args.prr_min >= th.prr_min /\ args.chi2_min >= th.chi2_min
          /\ args.n_min >= th.n_min
          /\ StatsFlagged(out, th.prr_min, th.chi2_min, th.n_min).rows[1].flagged

(***************************************************************************)
(* C30.  Swapping the exposed and the comparator row inverts the ratios   *)
(* and keeps the chi-square: for every table of non-negative integers the *)
(* point estimates of prr_ci(c, d, a, b) and ror_ci(c, d, a, b) are the   *)
(* reciprocals of those of prr_ci(a, b, c, d) and ror_ci(a, b, c, d),     *)
(* chi2_pearson(c, d, a, b) = chi2_pearson(a, b, c, d), and PRR >= 1      *)
(* exactly when ROR >= 1, in which case ROR >= PRR.                       *)
(***************************************************************************)
C30_RowSwapInverts ==
    pc = "done" =>
        \A i \in 1..NRows(out) :
            LET r  == out.rows[i]
                p  == prr_ci(r.a, r.b, r.c, r.d)
                ps == prr_ci(r.c, r.d, r.a, r.b)
                q  == ror_ci(r.a, r.b, r.c, r.d)
                qs == ror_ci(r.c, r.d, r.a, r.b)
            IN /\ p.exc = "none" /\ ps.exc = "none" /\ q.exc = "none" /\ qs.exc = "none"
               /\ SameFloat(r.PRR, p.val[1]) /\ SameFloat(r.ROR, q.val[1])
               /\ p.val[1].k = "fin" /\ ps.val[1].k = "fin"
               /\ q.val[1].k = "fin" /\ qs.val[1].k = "fin"
               /\ QEq(QMul[p.val[1].q, ps.val[1].q], QOne)
               /\ QEq(QMul[q.val[1].q, qs.val[1].q], QOne)
               /\ SameFloat(chi2_pearson(r.c, r.d, r.a, r.b), r.chi2)
               /\ QGe(r.PRR.q, QOne) <=> QGe(r.ROR.q, QOne)
               /\ QGe(r.PRR.q, QOne) => QGe(r.ROR.q, r.PRR.q)

\* a table with a zero cell whose PRR is above 1 and whose ROR is above its
\* PRR; the PRR of the swapped table is below 1
C30_Witness ==
    /\ pc = "done"
    /\ \E i \in 1..NRows(out) :
          LET r == out.rows[i]
          IN /\ HasZero(r)
             /\ QGt(r.PRR.q, QOne) /\ QGt(r.ROR.q, r.PRR.q)
             /\ QLt(prr_ci(r.c, r.d, r.a, r.b).val[1].q, QOne)
=============================================================================
